---------------------------- MODULE Spec2Model ----------------------------
(***************************************************************************)
(* A model of pulse_adjoint: the reduced-functional driver                 *)
(* (MyReducedFunctional, setup_optimization.py), the construction of the   *)
(* material models (material.py) and the Regularization term               *)
(* (optimization_targets.py).                                              *)
(*                                                                         *)
(* Three components, three specifications over disjoint variables:         *)
(*   SpecDriver    MyReducedFunctional: __call__, derivative, reset        *)
(*   SpecMaterial  HolzapfelOgden / NeoHookean / Guccione construction     *)
(*   SpecReg       Regularization: __init__, get_functional, save          *)
(***************************************************************************)
EXTENDS Integers, Sequences, FiniteSets, TLC

(***************************************************************************)
(* Bounds of the model.                                                    *)
(***************************************************************************)
\* evaluate calls (self.iter) explored
MaxIter == 2
\* derivative calls (self.nr_der_calls) explored
MaxDer == 2
\* material objects alive at a time
MaxMaterials == 2
\* save() calls on one Regularization object
MaxSaves == 2
\* cells of the interval mesh the regularized control lives on
NumCells == 2
\* calls on one optimization target that change it
MaxTargetCalls == 5
\* cells of the mesh a RegionalParameter is defined on
MeshCells == 3
\* groups of region ids in one control string
MaxGroups == 2
\* measurement points of a patient
MaxPoints == 3
\* calls that examine one simulation file
MaxStoreCalls == 3

(***************************************************************************)
(* IEEE floating-point values as far as the driver needs them: finite      *)
(* numbers (integers here), +inf, -inf and NaN.                            *)
(***************************************************************************)
Fin(n) == [k |-> "fin", v |-> n]
PInf == [k |-> "inf", v |-> 1]
NInf == [k |-> "inf", v |-> -1]
NaN == [k |-> "nan", v |-> 0]
\* "no value": what a call that raised returns
NoFloat == [k |-> "none", v |-> 0]

Sign(n) == IF n > 0 THEN 1 ELSE IF n < 0 THEN -1 ELSE 0

\* x * y in floating point: NaN is absorbing, inf * 0 is NaN
Mul(x, y) ==
    IF x.k = "nan" \/ y.k = "nan" THEN NaN
    ELSE IF x.k = "fin" /\ y.k = "fin" THEN Fin(x.v * y.v)
    ELSE IF Sign(x.v) * Sign(y.v) = 0 THEN NaN
    ELSE IF Sign(x.v) * Sign(y.v) > 0 THEN PInf ELSE NInf

\* math.isnan
isnan(x) == x.k = "nan"

\* |x|
Abs(x) ==
    IF x.k = "fin" THEN Fin(IF x.v < 0 THEN -x.v ELSE x.v)
    ELSE IF x.k = "inf" THEN PInf ELSE x

(***************************************************************************)
(* The driver's inputs.  The control lives in a real space (one degree of  *)
(* freedom): its vector is a one-element sequence.                         *)
(***************************************************************************)
ControlVals == {0, 1}
ControlVecs == {<<c>> : c \in ControlVals}

\* The kinds of value the optimizer hands to __call__ (lines 772-781)
FunctionValue(vec) == [kind |-> "Function", vec |-> vec]
FloatValue(x) == [kind |-> "float", x |-> x]
EnlistedValue(vec) == [kind |-> "Enlisted", items |-> <<FunctionValue(vec)>>]
ArrayValue(arr) == [kind |-> "array", arr |-> arr]
Values ==
    {FunctionValue(c) : c \in ControlVecs} \cup {FloatValue(c) : c \in ControlVals}
    \cup {EnlistedValue(c) : c \in ControlVecs} \cup {ArrayValue(c) : c \in ControlVecs}
NoValue == [kind |-> "none"]

\* for_res["func_value"] of a forward solve
FuncVals == {1, 2}
\* the results bundle for_run returns
ForRes(fv) == [set |-> TRUE, func_value |-> fv]
NoRes == [set |-> FALSE, func_value |-> 0]
\* components of the adjoint gradient out[0].vector().array()
GradVals == {Fin(-2), NaN}
Gradients == {<<g>> : g \in GradVals}
\* scale and relax given to __init__: positive scale factors
Scales == {1, 2}
Relaxes == {3}

VARIABLES
    \* parameters["adjoint"]["stop_annotating"], process-wide
    stop_annotating,
    \* MyReducedFunctional's fields
    iter, nr_crashes, nr_der_calls, first_call, ini_for_res, for_res,
    func_values_lst, controls_lst, forward_times, backward_times,
    grad_norm, grad_norm_scaled, paramvec, scale, derivative_scale,
    \* whether ReducedFunctional.__init__ has run (it sets self.controls)
    controls_set,
    \* observations of the last call: which operation, how it was left,
    \* the value object handed in and as it is after the call, the control
    \* handed to for_run, and what was returned (ret by __call__, ret_grad
    \* by derivative)
    last, value_in, value_out, solver_arg, ret, ret_grad,
    \* the gradient ReducedFunctional.derivative handed back in the last
    \* derivative call
    adjoint_out,
    \* history: number of evaluate calls whose forward solve crashed, and
    \* for each entry of func_values_lst / grad_norm the iteration (self.iter)
    \* of the call that logged it
    crashed_calls, func_it, grad_it

driverVars ==
    <<stop_annotating, iter, nr_crashes, nr_der_calls, first_call, ini_for_res,
      for_res, func_values_lst, controls_lst, forward_times, backward_times,
      grad_norm, grad_norm_scaled, paramvec, scale, derivative_scale,
      controls_set, last, value_in, value_out, solver_arg, ret, ret_grad,
      adjoint_out, crashed_calls, func_it, grad_it>>

VARIABLES
    \* the material objects that exist, and the last constructor call
    materials, mat_last

materialVars == <<materials, mat_last>>

VARIABLES
    \* the Regularization object, the last call on it, the control handed to
    \* it and the form it returned
    reg, reg_last, reg_m, reg_ret

regVars == <<reg, reg_last, reg_m, reg_ret>>

VARIABLES
    \* an optimization target (VolumeTarget or RegionalStrainTarget), the
    \* last call on it, and the history: the snapshots in the order
    \* load_target_data received them, the number of save() calls and the
    \* number of calls that completed, and the number of completed
    \* assign_functional calls
    tgt, tgt_last, tgt_loaded, tgt_saves, tgt_calls, tgt_evals

targetVars == <<tgt, tgt_last, tgt_loaded, tgt_saves, tgt_calls, tgt_evals>>

VARIABLES
    \* a constructed material whose energy functions are evaluated, the
    \* last evaluation, and the one before it when both were calls of W_4
    \* with diff = 0
    mat, en_last, en_prev

energyVars == <<mat, en_last, en_prev>>

VARIABLES
    \* a RegionalParameter and the last call on it
    rp, rp_last

regionalVars == <<rp, rp_last>>

VARIABLES
    \* a patient object (its attributes), the patient as it was passed to
    \* the last check_patient_attributes call, and that call's outcome
    patient, patient_in, cpa_last

patientVars == <<patient, patient_in, cpa_last>>

VARIABLES
    \* the array of patient.sfun and the last merge_control call on it
    mc_sfun, mc_last

mergeVars == <<mc_sfun, mc_last>>

VARIABLES
    \* the patient's measured series, the targets switched on in
    \* params["Optimization_targets"], and the last get_measurements call
    gm_patient, gm_targets, gm_last

measVars == <<gm_patient, gm_targets, gm_last>>

VARIABLES
    \* the simulation file on disk, the number of handles on it that were
    \* opened and not closed, the last call that examined it, and the
    \* number of such calls
    sim_file, open_handles, st_last, st_calls

storeVars == <<sim_file, open_handles, st_last, st_calls>>

vars ==
    <<driverVars,
      materialVars,
      regVars,
      targetVars,
      energyVars,
      regionalVars,
      patientVars,
      mergeVars,
      measVars,
      storeVars>>

\* what the driver's operations leave alone
notDriver ==
    <<materialVars,
      regVars,
      targetVars,
      energyVars,
      regionalVars,
      patientVars,
      mergeVars,
      measVars,
      storeVars>>
\* what constructing a material leaves alone
notMaterial ==
    <<driverVars,
      regVars,
      targetVars,
      energyVars,
      regionalVars,
      patientVars,
      mergeVars,
      measVars,
      storeVars>>
\* what the Regularization's operations leave alone
notReg ==
    <<driverVars,
      materialVars,
      targetVars,
      energyVars,
      regionalVars,
      patientVars,
      mergeVars,
      measVars,
      storeVars>>
\* what a target's operations leave alone
notTarget ==
    <<driverVars,
      materialVars,
      regVars,
      energyVars,
      regionalVars,
      patientVars,
      mergeVars,
      measVars,
      storeVars>>
\* what evaluating a material's energy leaves alone
notEnergy ==
    <<driverVars,
      materialVars,
      regVars,
      targetVars,
      regionalVars,
      patientVars,
      mergeVars,
      measVars,
      storeVars>>
\* what a RegionalParameter's operations leave alone
notRegional ==
    <<driverVars,
      materialVars,
      regVars,
      targetVars,
      energyVars,
      patientVars,
      mergeVars,
      measVars,
      storeVars>>
\* what checking a patient's attributes leaves alone
notPatient ==
    <<driverVars,
      materialVars,
      regVars,
      targetVars,
      energyVars,
      regionalVars,
      mergeVars,
      measVars,
      storeVars>>
\* everything but the merged region map
notMerge ==
    <<driverVars,
      materialVars,
      regVars,
      targetVars,
      energyVars,
      regionalVars,
      patientVars,
      measVars,
      storeVars>>
\* everything but the measurements
notMeas ==
    <<driverVars,
      materialVars,
      regVars,
      targetVars,
      energyVars,
      regionalVars,
      patientVars,
      mergeVars,
      storeVars>>
\* everything but the simulation file
notStore ==
    <<driverVars,
      materialVars,
      regVars,
      targetVars,
      energyVars,
      regionalVars,
      patientVars,
      mergeVars,
      measVars>>

Last(op, outcome, crash) == [op |-> op, outcome |-> outcome, crash |-> crash]

\* s without its last element (list.pop())
pop(s) == SubSeq(s, 1, Len(s) - 1)

(***************************************************************************)
(* MyReducedFunctional.__call__                                            *)
(***************************************************************************)
\* delist(value, self.controls): the controls were enlisted from one
\* Control, so the single item is taken out of the list
delist(value) == value.items[1]

\* The vector of paramvec_new after the value has been copied into it
paramvec_new(value) ==
    CASE value.kind = "Function" -> value.vec
      [] value.kind = "float" -> <<value.x>>
      [] value.kind = "Enlisted" -> delist(value).vec
      [] OTHER -> value.arr

\* The value object after the copy: only read
value_after_copy(value) == value

\* (variant: the proposed value is assigned into self.paramvec)
paramvec_after_call_inplace(pv, new) == new

\* self.paramvec after the call: Control(self.paramvec) wraps it, nothing
\* is assigned to it
paramvec_after_call(pv, new) == pv

\* func_value chosen by the crash branch
crash_func_value(res, crash) == IF crash THEN PInf ELSE Fin(res.func_value)

\* (variant: the crash branch forgets the counter)
nr_crashes_after_call_uncounted(n, crash) == n

nr_crashes_after_call(n, crash) == IF crash THEN n + 1 ELSE n

\* (variant: the unscaled value is logged)
logged_func_value_unscaled(func_value, sc) == func_value

\* the entry appended to func_values_lst
logged_func_value(func_value, sc) == Mul(func_value, Fin(sc))

\* the value returned
returned_func_value(func_value, sc) == Mul(Fin(sc), func_value)

\* (variant: "Stop annotating" only in the branch without a crash)
stop_annotating_on_return_else_only(crash) == ~crash

\* the flag as __call__ leaves it when it returns
stop_annotating_on_return(crash) == TRUE

\* __call__ returns: for_run returned (res, crash)
\* (variant: every call stores its result bundle as the first one)
ini_for_res_after_call_latest(first, ini, res) == res

\* lines 820-822: the first call that gets a result from for_run keeps it
\* as ini_for_res
ini_for_res_after_call(first, ini, res) == IF first THEN res ELSE ini

\* (variant: no control snapshot is logged for a crashed forward solve)
controls_lst_after_call_no_crash_only(lst, new, crash) ==
    IF crash THEN lst ELSE Append(lst, new)

\* controls_lst after line 862: a copy of the new control is appended,
\* crash or not
controls_lst_after_call(lst, new, crash) == Append(lst, new)

Evaluate(value, res, crash) ==
    /\ iter < MaxIter
    /\ value.kind = "Enlisted" => controls_set
    /\ iter' = iter + 1
    /\ solver_arg' = paramvec_new(value)
    /\ value_in' = value
    /\ value_out' = value_after_copy(value)
    /\ for_res' = res
    /\ forward_times' = Append(forward_times, 1)
    /\ ini_for_res' = ini_for_res_after_call(first_call, ini_for_res, res)
    /\ first_call' = FALSE
    /\ controls_set' = TRUE
    /\ paramvec' = paramvec_after_call(paramvec, paramvec_new(value))
    /\ nr_crashes' = nr_crashes_after_call(nr_crashes, crash)
    /\ func_values_lst' =
           Append(func_values_lst,
                  logged_func_value(crash_func_value(res, crash), scale))
    /\ controls_lst' =
           controls_lst_after_call(controls_lst, paramvec_new(value), crash)
    /\ stop_annotating' = stop_annotating_on_return(crash)
    /\ ret' = returned_func_value(crash_func_value(res, crash), scale)
    /\ ret_grad' = <<>>
    /\ adjoint_out' = <<>>
    /\ last' = Last("evaluate", "return", crash)
    /\ crashed_calls' = IF crash THEN crashed_calls + 1 ELSE crashed_calls
    /\ func_it' = Append(func_it, iter + 1)
    /\ UNCHANGED notDriver
    /\ UNCHANGED <<nr_der_calls, backward_times, grad_norm, grad_norm_scaled,
                   scale, derivative_scale, grad_it>>

\* __call__ is left by an exception raised in for_run (line 813)
EvaluateForRunRaises(value) ==
    /\ iter < MaxIter
    /\ value.kind = "Enlisted" => controls_set
    /\ iter' = iter + 1
    /\ solver_arg' = paramvec_new(value)
    /\ value_in' = value
    /\ value_out' = value_after_copy(value)
    /\ stop_annotating' = FALSE
    /\ ret' = NoFloat
    /\ ret_grad' = <<>>
    /\ adjoint_out' = <<>>
    /\ last' = Last("evaluate", "raise", FALSE)
    /\ UNCHANGED notDriver
    /\ UNCHANGED <<nr_crashes, nr_der_calls, first_call, ini_for_res, for_res,
                   func_values_lst, controls_lst, forward_times, backward_times,
                   grad_norm, grad_norm_scaled, paramvec, scale,
                   derivative_scale, controls_set, crashed_calls, func_it,
                   grad_it>>

\* __call__ with an Enlisted value before ReducedFunctional.__init__ has run:
\* self.controls does not exist yet, line 777 raises AttributeError
EvaluateNoControls(value) ==
    /\ iter < MaxIter
    /\ value.kind = "Enlisted"
    /\ ~controls_set
    /\ iter' = iter + 1
    /\ value_in' = value
    /\ value_out' = value
    /\ ret' = NoFloat
    /\ ret_grad' = <<>>
    /\ adjoint_out' = <<>>
    /\ last' = Last("evaluate", "raise", FALSE)
    /\ UNCHANGED notDriver
    /\ UNCHANGED <<stop_annotating, nr_crashes, nr_der_calls, first_call,
                   ini_for_res, for_res, func_values_lst, controls_lst,
                   forward_times, backward_times, grad_norm, grad_norm_scaled,
                   paramvec, scale, derivative_scale, controls_set, solver_arg,
                   crashed_calls, func_it, grad_it>>

(***************************************************************************)
(* MyReducedFunctional.derivative                                          *)
(***************************************************************************)
\* np.linalg.norm of a one-component vector
norm(g) == Abs(g[1])

\* the NaN test over the components of out[0].vector().array()
has_nan(out) == \E i \in 1..Len(out) : isnan(out[i])

\* (variant: the gradient is scaled by scale alone)
scaled_gradient_no_relax(out, sc, relax) ==
    [i \in 1..Len(out) |-> Mul(Fin(sc), out[i])]

\* self.scale * gathered_out * self.derivative_scale
scaled_gradient(out, sc, relax) ==
    [i \in 1..Len(out) |-> Mul(Mul(Fin(sc), out[i]), Fin(relax))]

\* np.linalg.norm(gathered_out) * self.scale * self.derivative_scale
scaled_norm(out, sc, relax) == Mul(Mul(norm(out), Fin(sc)), Fin(relax))

\* grad_norm after the NaN test has raised: the appends are not reached
grad_norm_on_raise(lst, out) == lst

\* ReducedFunctional.derivative needs the functional and the controls that
\* ReducedFunctional.__init__ (line 837) sets: it is called after a first
\* forward solve has returned.  out is the gradient the adjoint returns.
Derivative(out) ==
    /\ nr_der_calls < MaxDer
    /\ controls_set
    /\ ~has_nan(out)
    /\ nr_der_calls' = nr_der_calls + 1
    /\ backward_times' = Append(backward_times, 1)
    /\ grad_norm' = Append(grad_norm, norm(out))
    /\ grad_norm_scaled' =
           Append(grad_norm_scaled, scaled_norm(out, scale, derivative_scale))
    /\ ret_grad' = scaled_gradient(out, scale, derivative_scale)
    /\ ret' = NoFloat
    /\ adjoint_out' = out
    /\ value_in' = NoValue
    /\ value_out' = NoValue
    /\ last' = Last("derivative", "return", FALSE)
    /\ grad_it' = Append(grad_it, iter)
    /\ UNCHANGED notDriver
    /\ UNCHANGED <<stop_annotating, iter, nr_crashes, first_call, ini_for_res,
                   for_res, func_values_lst, controls_lst, forward_times,
                   paramvec, scale, derivative_scale, controls_set, solver_arg,
                   crashed_calls, func_it>>

\* derivative raises "NaN in adjoint gradient calculation." (line 930)
DerivativeNaN(out) ==
    /\ nr_der_calls < MaxDer
    /\ controls_set
    /\ has_nan(out)
    /\ nr_der_calls' = nr_der_calls + 1
    /\ backward_times' = Append(backward_times, 1)
    /\ grad_norm' = grad_norm_on_raise(grad_norm, out)
    /\ grad_norm_scaled' = grad_norm_scaled
    /\ ret_grad' = <<>>
    /\ ret' = NoFloat
    /\ adjoint_out' = out
    /\ value_in' = NoValue
    /\ value_out' = NoValue
    /\ last' = Last("derivative", "raise", FALSE)
    /\ UNCHANGED notDriver
    /\ UNCHANGED <<stop_annotating, iter, nr_crashes, first_call, ini_for_res,
                   for_res, func_values_lst, controls_lst, forward_times,
                   paramvec, scale, derivative_scale, controls_set, solver_arg,
                   crashed_calls, func_it, grad_it>>

(***************************************************************************)
(* MyReducedFunctional.reset                                               *)
(***************************************************************************)
\* "if len(lst): lst.pop()"
pop_if_any(lst) == IF Len(lst) > 0 THEN pop(lst) ELSE lst

\* reset() before a first forward solve has returned (no ini_for_res yet):
\* every counter and list is set to its initial value
ResetFresh ==
    /\ ~ini_for_res.set
    /\ first_call' = TRUE
    /\ nr_crashes' = 0
    /\ iter' = 0
    /\ nr_der_calls' = 0
    /\ func_values_lst' = <<>>
    /\ controls_lst' = <<>>
    /\ forward_times' = <<>>
    /\ backward_times' = <<>>
    /\ grad_norm' = <<>>
    /\ grad_norm_scaled' = <<>>
    /\ ret' = NoFloat
    /\ ret_grad' = <<>>
    /\ adjoint_out' = <<>>
    /\ value_in' = NoValue
    /\ value_out' = NoValue
    /\ last' = Last("reset", "return", FALSE)
    /\ UNCHANGED notDriver
    /\ UNCHANGED <<stop_annotating, ini_for_res, for_res, paramvec, scale,
                   derivative_scale, controls_set, solver_arg, crashed_calls,
                   func_it, grad_it>>

\* reset() once ini_for_res exists: the last entry of each of the four
\* lists is popped, if there is one
Reset ==
    /\ ini_for_res.set
    /\ func_values_lst' = pop_if_any(func_values_lst)
    /\ controls_lst' = pop_if_any(controls_lst)
    /\ grad_norm' = pop_if_any(grad_norm)
    /\ grad_norm_scaled' = pop_if_any(grad_norm_scaled)
    /\ func_it' = pop_if_any(func_it)
    /\ grad_it' = pop_if_any(grad_it)
    /\ ret' = NoFloat
    /\ ret_grad' = <<>>
    /\ adjoint_out' = <<>>
    /\ value_in' = NoValue
    /\ value_out' = NoValue
    /\ last' = Last("reset", "return", FALSE)
    /\ UNCHANGED notDriver
    /\ UNCHANGED <<stop_annotating, iter, nr_crashes, nr_der_calls, first_call,
                   ini_for_res, for_res, forward_times, backward_times,
                   paramvec, scale, derivative_scale, controls_set, solver_arg,
                   crashed_calls>>

(***************************************************************************)
(* The driver after MyReducedFunctional.__init__ (which calls reset()),    *)
(* with recording off as the caller leaves it before optimizing.           *)
(***************************************************************************)
InitDriver ==
    /\ stop_annotating = TRUE
    /\ iter = 0
    /\ nr_crashes = 0
    /\ nr_der_calls = 0
    /\ first_call = TRUE
    /\ ini_for_res = NoRes
    /\ for_res = NoRes
    /\ func_values_lst = <<>>
    /\ controls_lst = <<>>
    /\ forward_times = <<>>
    /\ backward_times = <<>>
    /\ grad_norm = <<>>
    /\ grad_norm_scaled = <<>>
    /\ paramvec = <<0>>
    /\ scale \in Scales
    /\ derivative_scale \in Relaxes
    /\ controls_set = FALSE
    /\ last = Last("init", "return", FALSE)
    /\ value_in = NoValue
    /\ value_out = NoValue
    /\ solver_arg = <<>>
    /\ ret = NoFloat
    /\ ret_grad = <<>>
    /\ adjoint_out = <<>>
    /\ crashed_calls = 0
    /\ func_it = <<>>
    /\ grad_it = <<>>


(***************************************************************************)
(* material.py: construction of the material models                        *)
(***************************************************************************)
\* the tags Material.__init__ accepts (lines 31-32)
ActiveModels == {"active_stress", "active_strain", "active_strain_rossi"}
\* the tags a caller may pass
Tags == ActiveModels \cup {"active", "passive"}
\* Guccione(**params) called without an active_model keyword
NoTag == "absent"
\* T_ref arguments: <<>> is None, <<t>> is the number t
TRefArgs == {<<>>, <<100>>}

\* a material object: the variant, the tag it carries (_active_model; for
\* Guccione the active_model entry of _parameters), whether Material.__init__
\* has run on it, and _T_ref (0 while unset)
MaterialObject(variant, tag, base_init, t_ref) ==
    [variant |-> variant, active_model |-> tag, material_init |-> base_init,
     T_ref |-> t_ref]

\* (variant: the assert is absent, any tag is accepted)
active_model_implemented_unchecked(tag) == TRUE

\* the assert of Material.__init__
active_model_implemented(tag) == tag \in ActiveModels

\* _T_ref as Material.__init__ sets it
T_ref_of(tag, T_ref) ==
    IF T_ref = <<>> THEN (IF tag = "active_stress" THEN 300 ELSE 1)
    ELSE T_ref[1]

MatLast(variant, tag, outcome) ==
    [variant |-> variant, active_model |-> tag, outcome |-> outcome]

\* HolzapfelOgden.__init__ and NeoHookean.__init__ set _active_model and call
\* Material.__init__, whose assert passes
Construct(variant, active_model, T_ref) ==
    /\ variant \in {"HolzapfelOgden", "NeoHookean"}
    /\ Cardinality(materials) < MaxMaterials
    /\ active_model_implemented(active_model)
    /\ materials' = materials \cup
           {MaterialObject(variant, active_model, TRUE,
                           T_ref_of(active_model, T_ref))}
    /\ mat_last' = MatLast(variant, active_model, "return")
    /\ UNCHANGED notMaterial

\* ... whose assert fails: AssertionError, no object comes to exist
ConstructFails(variant, active_model, T_ref) ==
    /\ variant \in {"HolzapfelOgden", "NeoHookean"}
    /\ ~active_model_implemented(active_model)
    /\ mat_last' = MatLast(variant, active_model, "raise")
    /\ UNCHANGED materials
    /\ UNCHANGED notMaterial

\* Guccione.__init__(**params): the keywords update _parameters;
\* Material.__init__ is not called and nothing is checked
ConstructGuccione(active_model) ==
    /\ Cardinality(materials) < MaxMaterials
    /\ materials' = materials \cup
           {MaterialObject("Guccione", active_model, FALSE, 0)}
    /\ mat_last' = MatLast("Guccione", active_model, "return")
    /\ UNCHANGED notMaterial

InitMaterial ==
    /\ materials = {}
    /\ mat_last = MatLast("none", NoTag, "none")

NextMaterial ==
    \/ \E variant \in {"HolzapfelOgden", "NeoHookean"}, tag \in Tags,
          T_ref \in TRefArgs : Construct(variant, tag, T_ref)
    \/ \E variant \in {"HolzapfelOgden", "NeoHookean"}, tag \in Tags,
          T_ref \in TRefArgs : ConstructFails(variant, tag, T_ref)
    \/ \E tag \in Tags \cup {NoTag} : ConstructGuccione(tag)

(***************************************************************************)
(* optimization_targets.py: Regularization                                 *)
(***************************************************************************)
\* the spaces Regularization.__init__ accepts (line 366)
RegSpaces == {"CG_1", "regional", "R_0"}
\* the space tags a caller may pass
SpaceTags == RegSpaces \cup {"CG_2", "R_1"}
\* regularization weights
Lmbdas == {0, 2}
\* nodal values of the control
RegVals == {0, 1}
\* the controls m: nodal values on the unit interval cut into NumCells cells
RegControls == [1..(NumCells + 1) -> RegVals]

RegObject(space, lmbda, value, results) ==
    [exists |-> TRUE, space |-> space, lmbda |-> lmbda, value |-> value,
     func_value |-> results]
NoReg ==
    [exists |-> FALSE, space |-> "none", lmbda |-> 0, value |-> 0,
     func_value |-> <<>>]
\* a form, by what assemble() makes of it
Form(kind, value) == [kind |-> kind, value |-> value]
NoForm == Form("none", 0)
RegLast(op, outcome, space) ==
    [op |-> op, outcome |-> outcome, space |-> space]

RECURSIVE sum_sq_jumps(_, _)
\* sum over the cells i..Len(m)-1 of the squared jump of m across the cell
sum_sq_jumps(m, i) ==
    IF i >= Len(m) THEN 0
    ELSE (m[i + 1] - m[i]) * (m[i + 1] - m[i]) + sum_sq_jumps(m, i + 1)

\* assemble((inner(grad(m), grad(m))/meshvol)*dx) on the unit interval:
\* meshvol is 1, each of the n cells has length 1/n and gradient n*jump
grad_form(m) == Form("grad", (Len(m) - 1) * sum_sq_jumps(m, 1))

\* Constant(0.0)*self.dx
zero_form == Form("zero", 0)

\* (variant: the first test is "not regional", so R_0 takes the gradient
\* branch)
get_form_R0_as_CG1(space, m) ==
    IF space # "regional" THEN grad_form(m) ELSE Form("raise", 0)

\* Regularization.get_form: the regional branch reads self.mesh_vol, an
\* attribute __init__ never sets (it sets meshvol): AttributeError
get_form(space, m) ==
    IF space = "CG_1" THEN grad_form(m)
    ELSE IF space = "regional" THEN Form("raise", 0)
    ELSE zero_form

\* self.lmbda*form
weighted(lmbda, form) == Form(form.kind, lmbda * form.value)

\* (variant: no assert, any space tag is stored)
space_known_unchecked(space) == TRUE

\* the assert of Regularization.__init__
space_known(space) == space \in RegSpaces

\* Regularization.__init__ with a known space
RegInit(space, lmbda) ==
    /\ space_known(space)
    /\ reg' = RegObject(space, lmbda, 0, <<>>)
    /\ reg_last' = RegLast("init", "return", space)
    /\ reg_m' = <<>>
    /\ reg_ret' = NoForm
    /\ UNCHANGED notReg

\* Regularization.__init__ with an unknown space: AssertionError, the
\* object does not come to exist
RegInitFails(space, lmbda) ==
    /\ ~space_known(space)
    /\ reg_last' = RegLast("init", "raise", space)
    /\ reg_m' = <<>>
    /\ reg_ret' = NoForm
    /\ UNCHANGED reg
    /\ UNCHANGED notReg

\* Regularization.get_functional(m) returns
RegGetFunctional(m) ==
    /\ reg.exists
    /\ get_form(reg.space, m).kind # "raise"
    /\ reg' = [reg EXCEPT !.value = get_form(reg.space, m).value]
    /\ reg_ret' = weighted(reg.lmbda, get_form(reg.space, m))
    /\ reg_m' = m
    /\ reg_last' = RegLast("get_functional", "return", reg.space)
    /\ UNCHANGED notReg

\* Regularization.get_functional(m) is left by the exception of get_form
RegGetFunctionalRaises(m) ==
    /\ reg.exists
    /\ get_form(reg.space, m).kind = "raise"
    /\ reg_ret' = NoForm
    /\ reg_m' = m
    /\ reg_last' = RegLast("get_functional", "raise", reg.space)
    /\ UNCHANGED reg
    /\ UNCHANGED notReg

\* Regularization.save
RegSave ==
    /\ reg.exists
    /\ Len(reg.func_value) < MaxSaves
    /\ reg' = [reg EXCEPT !.func_value = Append(reg.func_value, reg.value)]
    /\ reg_last' = RegLast("save", "return", reg.space)
    /\ reg_m' = <<>>
    /\ reg_ret' = NoForm
    /\ UNCHANGED notReg

\* Regularization.get_value
get_value(r) == r.value

InitReg ==
    /\ reg = NoReg
    /\ reg_last = RegLast("none", "none", "none")
    /\ reg_m = <<>>
    /\ reg_ret = NoForm

NextReg ==
    \/ \E space \in SpaceTags, lmbda \in Lmbdas : RegInit(space, lmbda)
    \/ \E space \in SpaceTags, lmbda \in Lmbdas : RegInitFails(space, lmbda)
    \/ \E m \in RegControls : RegGetFunctional(m)
    \/ \E m \in RegControls : RegGetFunctionalRaises(m)
    \/ RegSave



(***************************************************************************)
(* Rational numbers, for the forms that divide.  Q(n, d) is n/d in lowest  *)
(* terms; a zero denominator gives what floating point gives: +-inf        *)
(* (num = +-1) or NaN (num = 0).                                           *)
(***************************************************************************)
RECURSIVE GCD(_, _)
GCD(a, b) == IF b = 0 THEN a ELSE GCD(b, a % b)

AbsInt(n) == IF n < 0 THEN -n ELSE n

Q(n, d) ==
    IF d = 0 THEN [num |-> Sign(n), den |-> 0]
    ELSE [num |-> (Sign(d) * n) \div GCD(AbsInt(n), AbsInt(d)),
          den |-> AbsInt(d) \div GCD(AbsInt(n), AbsInt(d))]

QInt(n) == Q(n, 1)
QAdd(x, y) ==
    IF x.den = 0 \/ y.den = 0
    THEN (IF x.den = 0 /\ y.den = 0 /\ x.num # y.num THEN Q(0, 0)
          ELSE IF x.den = 0 THEN x ELSE y)
    ELSE Q(x.num * y.den + y.num * x.den, x.den * y.den)
QNeg(x) == [num |-> -x.num, den |-> x.den]
QSub(x, y) == QAdd(x, QNeg(y))
QMul(x, y) ==
    IF (x.den = 0 /\ x.num = 0) \/ (y.den = 0 /\ y.num = 0) THEN Q(0, 0)
    ELSE Q(x.num * y.num, x.den * y.den)
QDiv(x, y) ==
    IF (x.den = 0 /\ x.num = 0) \/ (y.den = 0 /\ y.num = 0) THEN Q(0, 0)
    ELSE Q(x.num * y.den * Sign(y.num), x.den * AbsInt(y.num))
\* x < y for finite x and y
QLess(x, y) == x.num * y.den < y.num * x.den

(***************************************************************************)
(* optimization_targets.py: OptimizationTarget, VolumeTarget,              *)
(* RegionalStrainTarget                                                    *)
(***************************************************************************)
\* the segments of a RegionalStrainTarget (range(17), range(1,18))
NumSegments == 17
Segments == 1..NumSegments

\* volumes: measured (target_data) and simulated
Volumes == {100, 110}
\* the volume series of a patient: target_data, indexed by time point
VolumeSeries == {<<100, 110>>, <<110, 110>>}

\* strain fields: for every segment the (circumferential, radial,
\* longitudinal) strain
ZeroStrain == [i \in Segments |-> <<0, 0, 0>>]
UniformStrain == [i \in Segments |-> <<1, 0, 2>>]
StrainAt(k) == [i \in Segments |-> IF i = k THEN <<1, 2, 0>> ELSE <<0, 0, 0>>]
StrainFields == {ZeroStrain, UniformStrain, StrainAt(1), StrainAt(NumSegments)}
\* target_data[region][time point] of a patient, from the fields of its
\* time points
StrainData(fields) ==
    [i \in Segments |-> [n \in DOMAIN fields |-> fields[n][i]]]
StrainSeries ==
    {StrainData(<<UniformStrain, StrainAt(1)>>),
     StrainData(<<StrainAt(NumSegments), ZeroStrain>>)}

\* weights arrays (17 rows of 3): the default np.ones((17,3)) and two others
OnesWeights == [i \in Segments |-> <<1, 1, 1>>]
GradedWeights == [i \in Segments |-> <<1 + (i % 2), 1, 2>>]
WeightArrays == {OnesWeights, GradedWeights}

\* the volume of segment i of the mesh (the measure dmu(i)), meshvol being
\* their sum
segment_volume(i) == 1 + (i % 2)

NoResults == [func_value |-> <<>>, target |-> <<>>, simulated |-> <<>>]

\* OptimizationTarget.__init__: no functions yet, empty data and results
NewTarget(variant, weights_arr) ==
    [variant |-> variant, allocated |-> FALSE, weights_arr |-> weights_arr,
     weights |-> <<>>, data |-> <<>>, target_fun |-> <<>>,
     simulated_fun |-> <<>>, functional |-> <<>>, results |-> NoResults]

TgtLast(op, outcome, arg) == [op |-> op, outcome |-> outcome, arg |-> arg]

\* a zero Function of the weight space: a flattened 3x3 tensor
zero_tensor == [j \in 1..9 |-> 0]

\* strain_weight of lines 194-197: zeros(9) with the row on the diagonal
strain_weight(row) ==
    [j \in 1..9 |-> IF j = 1 THEN row[1] ELSE IF j = 5 THEN row[2]
                    ELSE IF j = 9 THEN row[3] ELSE 0]

\* (variant: lines 194-198 run for every segment)
weights_after_set_looped(weights_arr) ==
    [i \in Segments |-> strain_weight(weights_arr[i])]

\* self.weights after set_target_functions: lines 194-198 follow the list
\* comprehensions and run once, with the i their loop variable was left at
\* (17): only the last segment's weight is assigned, the others stay zero
weights_after_set(weights_arr) ==
    [i \in Segments |->
        IF i = NumSegments THEN strain_weight(weights_arr[NumSegments])
        ELSE zero_tensor]

\* set_target_functions
set_target_functions(t) ==
    IF t.variant = "RegionalStrain"
    THEN [t EXCEPT !.allocated = TRUE,
                   !.target_fun = ZeroStrain,
                   !.simulated_fun = ZeroStrain,
                   !.functional = [i \in Segments |-> 0],
                   !.weights = weights_after_set(t.weights_arr)]
    ELSE [t EXCEPT !.allocated = TRUE,
                   !.target_fun = <<0>>,
                   !.simulated_fun = <<0>>,
                   !.functional = QInt(0)]

\* the Function load_target_data builds from target_data and the index n
\* (counted from 0)
loaded_snapshot(variant, target_data, n) ==
    IF variant = "RegionalStrain"
    THEN [i \in Segments |-> target_data[i][n + 1]]
    ELSE <<target_data[n + 1]>>

\* dot(W, v) for a flattened 3x3 tensor W and a 3-vector v
tensor_dot(W, v) ==
    [r \in 1..3 |-> W[3 * (r - 1) + 1] * v[1] + W[3 * (r - 1) + 2] * v[2]
                    + W[3 * (r - 1) + 3] * v[3]]

\* v**2 of a vector: its inner product with itself
vector_sq(v) == v[1] * v[1] + v[2] * v[2] + v[3] * v[3]

\* (variant: the strains are added instead of subtracted)
strain_form_sum(W, simulated, target) ==
    vector_sq(tensor_dot(W, [j \in 1..3 |-> simulated[j] + target[j]]))

\* RegionalStrainTarget._set_form, segment by segment
strain_form(W, simulated, target) ==
    vector_sq(tensor_dot(W, [j \in 1..3 |-> simulated[j] - target[j]]))

\* (variant: the form of the base class, not relative to the target)
volume_form_absolute(target, simulated) ==
    QMul(QInt(target - simulated), QInt(target - simulated))

\* VolumeTarget._set_form
volume_form(target, simulated) ==
    QMul(QDiv(QInt(target - simulated), QInt(target)),
         QDiv(QInt(target - simulated), QInt(target)))

\* assign_functional: the form projected onto the real space.  For a
\* volume target the form is constant and the projection is its value; for
\* a regional strain target functional[i] is the integral of form i over
\* segment i
assign_functional(t) ==
    IF t.variant = "RegionalStrain"
    THEN [t EXCEPT !.functional =
             [i \in Segments |->
                 strain_form(t.weights[i], t.simulated_fun[i], t.target_fun[i])
                     * segment_volume(i)]]
    ELSE [t EXCEPT !.functional =
             volume_form(t.target_fun[1], t.simulated_fun[1])]

RECURSIVE sum_upto(_, _)
sum_upto(f, n) == IF n = 0 THEN 0 ELSE f[n] + sum_upto(f, n - 1)

\* (variant: get_value evaluating the form on the current functions)
target_value_evaluated(t) ==
    IF t.variant = "RegionalStrain"
    THEN sum_upto(assign_functional(t).functional, NumSegments)
    ELSE assign_functional(t).functional

\* get_value
target_value(t) ==
    IF t.variant = "RegionalStrain" THEN sum_upto(t.functional, NumSegments)
    ELSE t.functional

\* (variant: the functional value logged, the functions not)
results_after_save_value_only(t) ==
    [func_value |-> Append(t.results.func_value, target_value(t)),
     target |-> t.results.target,
     simulated |-> t.results.simulated]

\* save: one entry appended to each of the three lists
results_after_save(t) ==
    [func_value |-> Append(t.results.func_value, target_value(t)),
     target |-> Append(t.results.target, t.target_fun),
     simulated |-> Append(t.results.simulated, t.simulated_fun)]


\* the inputs of a target of the given class
TargetSeries(variant) ==
    IF variant = "RegionalStrain" THEN StrainSeries ELSE VolumeSeries
SeriesLen(variant, target_data) ==
    IF variant = "RegionalStrain" THEN Len(target_data[1]) ELSE Len(target_data)
SimulatedValues(variant) ==
    IF variant = "RegionalStrain" THEN StrainFields
    ELSE {<<v>> : v \in Volumes}

\* the position list[it] reads in a list of length n: Python counts a
\* negative index from the end; 0 when list[it] raises IndexError
list_index(it, n) ==
    IF 0 <= it /\ it < n THEN it + 1
    ELSE IF it < 0 /\ -it <= n THEN n + it + 1
    ELSE 0

\* (variant: next_target reading the snapshot after the it-th)
next_target_index_shifted(it, n) == list_index(it + 1, n)

\* the position of self.data that next_target(it) assigns from
next_target_index(it, n) == list_index(it, n)

\* set_target_functions(): callable at any time, makes fresh functions
TgtSetTargetFunctions ==
    /\ tgt_calls < MaxTargetCalls
    /\ tgt' = set_target_functions(tgt)
    /\ tgt_last' = TgtLast("set_target_functions", "return", <<>>)
    /\ tgt_calls' = tgt_calls + 1
    /\ UNCHANGED <<tgt_loaded, tgt_saves, tgt_evals>>
    /\ UNCHANGED notTarget

\* load_target_data(target_data, n) with n inside the series
TgtLoadTargetData(target_data, n) ==
    /\ tgt_calls < MaxTargetCalls
    /\ list_index(n, SeriesLen(tgt.variant, target_data)) # 0
    /\ LET f == loaded_snapshot(tgt.variant, target_data,
                    list_index(n, SeriesLen(tgt.variant, target_data)) - 1)
       IN /\ tgt' = [tgt EXCEPT !.data = Append(@, f)]
          /\ tgt_loaded' = Append(tgt_loaded, f)
    /\ tgt_last' = TgtLast("load_target_data", "return", <<n>>)
    /\ tgt_calls' = tgt_calls + 1
    /\ UNCHANGED <<tgt_saves, tgt_evals>>
    /\ UNCHANGED notTarget

\* load_target_data(target_data, n) with n outside the series: target_data[n]
\* raises IndexError before anything is appended
TgtLoadTargetDataRaises(target_data, n) ==
    /\ list_index(n, SeriesLen(tgt.variant, target_data)) = 0
    /\ tgt_last' = TgtLast("load_target_data", "raise", <<n>>)
    /\ UNCHANGED <<tgt, tgt_loaded, tgt_saves, tgt_calls, tgt_evals>>
    /\ UNCHANGED notTarget

\* next_target(it): assign_target(self.data[it])
TgtNextTarget(it) ==
    /\ tgt_calls < MaxTargetCalls
    /\ tgt.allocated
    /\ next_target_index(it, Len(tgt.data)) # 0
    /\ tgt' = [tgt EXCEPT !.target_fun =
                   tgt.data[next_target_index(it, Len(tgt.data))]]
    /\ tgt_last' = TgtLast("next_target", "return", <<it>>)
    /\ tgt_calls' = tgt_calls + 1
    /\ UNCHANGED <<tgt_loaded, tgt_saves, tgt_evals>>
    /\ UNCHANGED notTarget

\* next_target(it) raises: self.data[it] IndexError, or no target_fun yet
TgtNextTargetRaises(it) ==
    /\ next_target_index(it, Len(tgt.data)) = 0 \/ ~tgt.allocated
    /\ tgt_last' = TgtLast("next_target", "raise", <<it>>)
    /\ UNCHANGED <<tgt, tgt_loaded, tgt_saves, tgt_calls, tgt_evals>>
    /\ UNCHANGED notTarget

\* assign_simulated(u): the projection of the displacement's volume or
\* regional strains is solved into simulated_fun; value is its solution
TgtAssignSimulated(value) ==
    /\ tgt_calls < MaxTargetCalls
    /\ tgt.allocated
    /\ tgt' = [tgt EXCEPT !.simulated_fun = value]
    /\ tgt_last' = TgtLast("assign_simulated", "return", <<>>)
    /\ tgt_calls' = tgt_calls + 1
    /\ UNCHANGED <<tgt_loaded, tgt_saves, tgt_evals>>
    /\ UNCHANGED notTarget

\* assign_functional()
TgtAssignFunctional ==
    /\ tgt_calls < MaxTargetCalls
    /\ tgt.allocated
    /\ tgt' = assign_functional(tgt)
    /\ tgt_last' = TgtLast("assign_functional", "return", <<>>)
    /\ tgt_calls' = tgt_calls + 1
    /\ tgt_evals' = tgt_evals + 1
    /\ UNCHANGED <<tgt_loaded, tgt_saves>>
    /\ UNCHANGED notTarget

\* save()
TgtSave ==
    /\ tgt_calls < MaxTargetCalls
    /\ tgt.allocated
    /\ tgt' = [tgt EXCEPT !.results = results_after_save(tgt)]
    /\ tgt_last' = TgtLast("save", "return", <<>>)
    /\ tgt_saves' = tgt_saves + 1
    /\ tgt_calls' = tgt_calls + 1
    /\ UNCHANGED <<tgt_loaded, tgt_evals>>
    /\ UNCHANGED notTarget

\* assign_simulated, assign_functional and save before
\* set_target_functions: the function attributes do not exist
\* (AttributeError); save raises in get_value, before its first append
TgtRaisesUnallocated(op) ==
    /\ ~tgt.allocated
    /\ tgt_last' = TgtLast(op, "raise", <<>>)
    /\ UNCHANGED <<tgt, tgt_loaded, tgt_saves, tgt_calls, tgt_evals>>
    /\ UNCHANGED notTarget

InitTarget(variant, weights_arr) ==
    /\ tgt = NewTarget(variant, weights_arr)
    /\ tgt_last = TgtLast("init", "return", <<>>)
    /\ tgt_loaded = <<>>
    /\ tgt_saves = 0
    /\ tgt_calls = 0
    /\ tgt_evals = 0

\* VolumeTarget(mesh, dmu): no weights
InitVolumeTarget == InitTarget("Volume", <<>>)
\* RegionalStrainTarget(mesh, crl_basis, dmu, weights)
InitStrainTarget == \E w \in WeightArrays : InitTarget("RegionalStrain", w)

NextTarget ==
    \/ TgtSetTargetFunctions
    \/ \E target_data \in TargetSeries(tgt.variant), n \in 0..1 :
           TgtLoadTargetData(target_data, n)
    \/ \E target_data \in TargetSeries(tgt.variant) :
           TgtLoadTargetDataRaises(target_data, 2)
    \/ \E it \in -1..1 : TgtNextTarget(it)
    \/ \E it \in -1..1 : TgtNextTargetRaises(it)
    \/ \E value \in SimulatedValues(tgt.variant) : TgtAssignSimulated(value)
    \/ TgtAssignFunctional
    \/ TgtSave
    \/ \E op \in {"assign_simulated", "assign_functional", "save"} :
           TgtRaisesUnallocated(op)


(***************************************************************************)
(* material.py: the strain energy of a constructed material.  Energies     *)
(* are kept exact: Val(lin, c, x) is the number lin + c*(exp(x) - 1), with *)
(* rational lin, c and x.  exp(x) = 1 only at x = 0 and exp is strictly    *)
(* increasing, so the normal form with c = 0 or x = 0 folded away decides  *)
(* whether a value is zero and orders two values with the same lin and c.  *)
(***************************************************************************)
Val(lin, c, x) ==
    IF c = QInt(0) \/ x = QInt(0)
    THEN [lin |-> lin, c |-> QInt(0), x |-> QInt(0)]
    ELSE [lin |-> lin, c |-> c, x |-> x]

Lin(q) == Val(q, QInt(0), QInt(0))
ZeroVal == Lin(QInt(0))
\* c * (exp(x) - 1)
ExpM1(c, x) == Val(QInt(0), c, x)
\* c * exp(x)
Exp(c, x) == Val(c, c, x)
\* v < w for values with the same lin and the same positive c
ValLess(v, w) ==
    v.lin = w.lin /\ v.c = w.c /\ QLess(QInt(0), v.c) /\ QLess(v.x, w.x)
\* the sum of values, as the sequence of its non-zero terms
ValSum(terms) == SelectSeq(terms, LAMBDA v : v # ZeroVal)

\* x**n for n in 0..2
QPow(x, n) == IF n = 0 THEN QInt(1) ELSE IF n = 1 THEN x ELSE QMul(x, x)

\* ge(x, 0.0)
ge0(x) == ~QLess(x, QInt(0))

subplus(x) == IF ge0(x) THEN x ELSE QInt(0)

\* (variant: no gating, 1 everywhere)
heaviside_ungated(x) == QInt(1)

heaviside(x) == IF ge0(x) THEN QInt(1) ELSE QInt(0)

\* parameters of a HolzapfelOgden (a, b, a_f, b_f) and a NeoHookean (mu)
HOParams ==
    {[a |-> 2, b |-> 1, a_f |-> 1, b_f |-> 2],
     [a |-> 1, b |-> 2, a_f |-> 3, b_f |-> 1]}
NHParams == {[mu |-> 2]}

\* activation levels
Gammas == {QInt(0), Q(1, 2)}

\* deformation gradients: diag(stretches), the fiber direction f0 being the
\* first axis; the length is the geometric dimension
Deformations ==
    {<<QInt(1), QInt(1)>>, <<QInt(1), QInt(1), QInt(1)>>,
     <<Q(11, 10), QInt(1)>>, <<Q(11, 10), QInt(1), QInt(1)>>,
     <<Q(9, 10), QInt(1), QInt(1)>>, <<QInt(1), Q(11, 10), QInt(1)>>}

\* values of the fiber invariant W_4 is called with
I4Values == {QInt(0), Q(9, 10), QInt(1), Q(11, 10), Q(3, 2), QInt(2)}

\* values of the first invariant W_1 is called with: the ends and the
\* inside of [3, 10]
I1Values == {QInt(3), QInt(4), QInt(10)}

\* the calls of Wactive: (I4f, diff) as strain_energy passes them (a fiber
\* invariant, diff = 0) and as CauchyStress does (I4f left at 0, diff = 1)
WactiveCalls == {<<Q(121, 100), 0>>, <<QInt(0), 1>>}

\* a material after its constructor: class, tag, _T_ref, parameters,
\* whether a fiber field f0 was given, and the activation gamma
EnergyMaterial(variant, tag, T_ref, params, f0, gamma) ==
    [variant |-> variant, active_model |-> tag,
     T_ref |-> T_ref_of(tag, T_ref), params |-> params, f0 |-> f0,
     gamma |-> gamma]

EnergyMaterials ==
    {EnergyMaterial("HolzapfelOgden", tag, T_ref, p, f0, g) :
        tag \in ActiveModels, T_ref \in TRefArgs, p \in HOParams,
        f0 \in BOOLEAN, g \in Gammas}
    \cup
    {EnergyMaterial("NeoHookean", tag, <<100>>, p, TRUE, g) :
        tag \in ActiveModels, p \in NHParams, g \in Gammas}

RECURSIVE sum_sq(_, _)
sum_sq(F, n) ==
    IF n = 0 THEN QInt(0) ELSE QAdd(QMul(F[n], F[n]), sum_sq(F, n - 1))

\* I1: tr(F.T * F)
I1(F) == sum_sq(F, Len(F))

\* I4f: 0 without a fiber field, else inner(C*f0, f0)
I4f(m, F) == IF ~m.f0 THEN QInt(0) ELSE QMul(F[1], F[1])

\* (variant: the two active strain models exchanged)
mgamma_swapped(tag, gamma) ==
    IF tag = "active_strain" THEN QAdd(QInt(1), gamma)
    ELSE QSub(QInt(1), gamma)

\* mgamma of I1e and I4fe (tag is not active_stress)
mgamma_of(tag, gamma) ==
    IF tag = "active_strain" THEN QSub(QInt(1), gamma)
    ELSE QAdd(QInt(1), gamma)

\* I1e
I1e(m, F, gamma) ==
    IF m.active_model = "active_stress" THEN I1(F)
    ELSE LET mgamma == mgamma_of(m.active_model, gamma)
             d == Len(F)
         IN QAdd(QMul(QPow(mgamma, 4 - d), I1(F)),
                 QMul(QSub(QDiv(QInt(1), QPow(mgamma, 2)),
                           QPow(mgamma, 4 - d)),
                      I4f(m, F)))

\* I4fe
I4fe(m, F, gamma) ==
    IF m.active_model = "active_stress" THEN I4f(m, F)
    ELSE QMul(QDiv(QInt(1), QPow(mgamma_of(m.active_model, gamma), 2)),
              I4f(m, F))

\* (variant: the first derivative without its factor 1/2)
W_1_unhalved(m, I_1, diff, dim) ==
    IF m.variant = "HolzapfelOgden"
    THEN LET a == QInt(m.params.a)
             b == QInt(m.params.b)
             e == QMul(b, QSub(I_1, QInt(3)))
         IN IF diff = 0 THEN ExpM1(QDiv(a, QMul(QInt(2), b)), e)
            ELSE IF diff = 1 THEN Exp(a, e)
            ELSE Exp(QDiv(QMul(a, b), QInt(2)), e)
    ELSE LET mu == QInt(m.params.mu)
         IN IF diff = 0
            THEN Lin(QMul(QDiv(mu, QInt(2)), QSub(I_1, QInt(dim))))
            ELSE IF diff = 1 THEN Lin(QDiv(mu, QInt(2)))
            ELSE ZeroVal

\* W_1 of HolzapfelOgden and of NeoHookean, diff in 0..2
W_1(m, I_1, diff, dim) ==
    IF m.variant = "HolzapfelOgden"
    THEN LET a == QInt(m.params.a)
             b == QInt(m.params.b)
             e == QMul(b, QSub(I_1, QInt(3)))
         IN IF diff = 0 THEN ExpM1(QDiv(a, QMul(QInt(2), b)), e)
            ELSE IF diff = 1 THEN Exp(QDiv(a, QInt(2)), e)
            ELSE Exp(QDiv(QMul(a, b), QInt(2)), e)
    ELSE LET mu == QInt(m.params.mu)
         IN IF diff = 0
            THEN Lin(QMul(QDiv(mu, QInt(2)), QSub(I_1, QInt(dim))))
            ELSE IF diff = 1 THEN Lin(QDiv(mu, QInt(2)))
            ELSE ZeroVal

\* W_4 of HolzapfelOgden and of NeoHookean, diff in 0..2
W_4(m, I_4, diff) ==
    IF m.variant = "HolzapfelOgden"
    THEN LET a == QInt(m.params.a_f)
             b == QInt(m.params.b_f)
             e == QMul(b, QPow(QSub(I_4, QInt(1)), 2))
         IN IF I_4 = QInt(0) THEN ZeroVal
            ELSE IF diff = 0
            THEN ExpM1(QMul(QDiv(a, QMul(QInt(2), b)),
                            heaviside(QSub(I_4, QInt(1)))), e)
            ELSE IF diff = 1
            THEN Exp(QMul(a, subplus(QSub(I_4, QInt(1)))), e)
            ELSE Exp(QMul(QMul(a, heaviside(QSub(I_4, QInt(1)))),
                          QAdd(QInt(1), QMul(QInt(2), e))), e)
    ELSE ZeroVal

\* (variant: the reference tension alone, the activation dropped)
Wactive_without_gamma(m, gamma, I_4f, diff) ==
    IF m.active_model = "active_stress"
    THEN (IF diff = 0 THEN Lin(QMul(QInt(m.T_ref), I_4f)) ELSE Lin(gamma))
    ELSE ZeroVal

\* Wactive, diff in 0..1
Wactive(m, gamma, I_4f, diff) ==
    IF m.active_model = "active_stress"
    THEN (IF diff = 0 THEN Lin(QMul(QMul(QInt(m.T_ref), gamma), I_4f))
          ELSE Lin(gamma))
    ELSE ZeroVal

\* strain_energy(F): the invariants it selects, the three terms and their sum
strain_energy(m, F) ==
    LET gamma == m.gamma
        i1 == IF m.active_model = "active_stress" THEN I1(F)
              ELSE I1e(m, F, gamma)
        i4f == IF m.active_model = "active_stress" THEN I4f(m, F)
               ELSE I4fe(m, F, gamma)
        W1 == W_1(m, i1, 0, Len(F))
        W4f == W_4(m, i4f, 0)
        Wact == Wactive(m, gamma, i4f, 0)
    IN [I1 |-> i1, I4f |-> i4f, W1 |-> W1, W4f |-> W4f, Wactive |-> Wact,
        W |-> ValSum(<<W1, W4f, Wact>>)]

\* the record of an evaluation: the function, its arguments, its result
Eval(op, args, result) == [op |-> op, args |-> args, result |-> result]
NoEval == Eval("none", <<>>, <<>>)

\* material.strain_energy(F)
EnStrainEnergy(F) ==
    /\ en_last' = Eval("strain_energy", <<F>>, strain_energy(mat, F))
    /\ en_prev' = NoEval
    /\ UNCHANGED mat
    /\ UNCHANGED notEnergy

\* material.I1e(F, gamma) and material.I4fe(F, gamma)
EnElasticInvariants(F, gamma) ==
    /\ en_last' = Eval("invariants", <<F, gamma>>,
                       [I1e |-> I1e(mat, F, gamma), I4fe |-> I4fe(mat, F, gamma)])
    /\ en_prev' = NoEval
    /\ UNCHANGED mat
    /\ UNCHANGED notEnergy

\* material.W_4(I_4, diff)
EnW4(I_4, diff) ==
    /\ en_last' = Eval("W_4", <<I_4, diff>>, W_4(mat, I_4, diff))
    /\ en_prev' = IF en_last.op = "W_4" /\ en_last.args[2] = 0 /\ diff = 0
                  THEN en_last ELSE NoEval
    /\ UNCHANGED mat
    /\ UNCHANGED notEnergy

\* material.W_1(I_1, diff, dim = 3)
EnW1(I_1, diff) ==
    /\ en_last' = Eval("W_1", <<I_1, diff>>, W_1(mat, I_1, diff, 3))
    /\ en_prev' = NoEval
    /\ UNCHANGED mat
    /\ UNCHANGED notEnergy

\* material.Wactive(gamma, I4f, diff)
EnWactive(gamma, I_4f, diff) ==
    /\ en_last' = Eval("Wactive", <<gamma, I_4f, diff>>,
                       Wactive(mat, gamma, I_4f, diff))
    /\ en_prev' = NoEval
    /\ UNCHANGED mat
    /\ UNCHANGED notEnergy

InitEnergy ==
    /\ mat \in EnergyMaterials
    /\ en_last = NoEval
    /\ en_prev = NoEval

\* the demo's material, nothing evaluated
IdleEnergy ==
    /\ mat = EnergyMaterial("HolzapfelOgden", "active_stress", <<100>>,
                            [a |-> 2, b |-> 1, a_f |-> 1, b_f |-> 2], TRUE,
                            QInt(0))
    /\ en_last = NoEval
    /\ en_prev = NoEval

NextEnergy ==
    \/ \E F \in Deformations : EnStrainEnergy(F)
    \/ \E F \in Deformations, gamma \in Gammas : EnElasticInvariants(F, gamma)
    \/ \E I_4 \in I4Values, diff \in 0..2 : EnW4(I_4, diff)
    \/ \E I_1 \in I1Values, diff \in 0..2 : EnW1(I_1, diff)
    \/ \E gamma \in Gammas, call \in WactiveCalls :
           EnWactive(gamma, call[1], call[2])


(***************************************************************************)
(* setup_optimization.py: RegionalParameter                                *)
(***************************************************************************)
Cells == 1..MeshCells
\* region ids a mesh function may carry
RegionIds == {1, 2, 3}
\* region maps: an id on every cell
MeshFunctions == [Cells -> RegionIds]
\* values of one coefficient
CoefficientValues == {0, 1, 2}

\* the distinct ids of a mesh function: set(meshfunction.array())
region_values(meshfunction) == {meshfunction[c] : c \in Cells}

\* the orders in which iterating over the set of ids may yield them
iteration_orders(ids) ==
    {s \in [1..Cardinality(ids) -> ids] :
        \A j, k \in 1..Cardinality(ids) : s[j] = s[k] => j = k}

\* (variant: the cells whose id is at most the marker)
make_indicator_function_upto(meshfunction, marker) ==
    [c \in Cells |-> IF meshfunction[c] <= marker THEN 1 ELSE 0]

\* _make_indicator_function(marker): 1 on the dofs of the cells where
\* meshfunction.array() == marker, 0 elsewhere
make_indicator_function(meshfunction, marker) ==
    [c \in Cells |-> IF meshfunction[c] = marker THEN 1 ELSE 0]

\* RegionalParameter(meshfunction), the ids iterated in the given order; the
\* coefficients of a new Function are zero
NewRegionalParameter(meshfunction, order) ==
    [meshfunction |-> meshfunction,
     values |-> order,
     nvalues |-> Cardinality(region_values(meshfunction)),
     ind_functions |->
         [k \in 1..Len(order) |->
             make_indicator_function(meshfunction, order[k])],
     coeffs |-> [k \in 1..Cardinality(region_values(meshfunction)) |-> 0]]

RECURSIVE sum_terms(_, _, _, _)
\* coeffs[1]*ind[1] + ... + coeffs[n]*ind[n] on cell c, pairing as
\* zip(coeffs[1:], ind_functions[1:]) does: up to the shorter list
sum_terms(coeffs, ind, n, c) ==
    IF n = 0 THEN 0
    ELSE coeffs[n] * ind[n][c] + sum_terms(coeffs, ind, n - 1, c)

\* _sum(): the function on the cells
regional_sum(r) ==
    [c \in Cells |->
        sum_terms(r.coeffs, r.ind_functions,
                  IF Len(r.coeffs) < Len(r.ind_functions)
                  THEN Len(r.coeffs) ELSE Len(r.ind_functions), c)]

RpLast(op, result) == [op |-> op, result |-> result]

\* the coefficient vector is assigned (the parameter is a dolfin Function)
RpAssign(coeffs) ==
    /\ rp' = [rp EXCEPT !.coeffs = coeffs]
    /\ rp_last' = RpLast("assign", <<>>)
    /\ UNCHANGED notRegional

\* get_function()
RpGetFunction ==
    /\ rp_last' = RpLast("get_function", regional_sum(rp))
    /\ UNCHANGED rp
    /\ UNCHANGED notRegional

InitRegional ==
    /\ \E meshfunction \in MeshFunctions :
         \E order \in iteration_orders(region_values(meshfunction)) :
             rp = NewRegionalParameter(meshfunction, order)
    /\ rp_last = RpLast("init", <<>>)

\* a parameter on a mesh of one region, nothing called
IdleRegional ==
    /\ rp = NewRegionalParameter([c \in Cells |-> 1], <<1>>)
    /\ rp_last = RpLast("init", <<>>)

NextRegional ==
    \/ \E coeffs \in [1..rp.nvalues -> CoefficientValues] : RpAssign(coeffs)
    \/ RpGetFunction


(***************************************************************************)
(* setup_optimization.py: check_patient_attributes.  A patient is the map  *)
(* from attribute names to values; an absent attribute maps to Absent.     *)
(***************************************************************************)
Absent == [absent |-> TRUE]

\* the attribute names check_patient_attributes reads or writes, and two
\* further names that start with "fiber"
AttrNames ==
    {"mesh", "fiber", "e_f", "fiber_angle", "fibers", "sheet", "e_s",
     "sheet_normal", "e_sn", "circumferential", "e_circ", "radial", "e_rad",
     "longitudinal", "e_long", "markers", "ffun", "facets_markers", "sfun",
     "strain_markers", "strain_weights", "mesh_type",
     "passive_filling_duration"}

\* dir(patient) lists the names in alphabetical order; those that start
\* with "fiber", in that order
FiberPrefixed == <<"fiber", "fiber_angle", "fibers">>

\* meshes: the topological dimension and whether the facet domains carry
\* the right-ventricle marker 20
Meshes ==
    {[dim |-> 2, rv |-> FALSE], [dim |-> 3, rv |-> FALSE],
     [dim |-> 3, rv |-> TRUE]}
\* facet functions, by whether 20 is among their values
FacetFunctions == {[rv |-> FALSE], [rv |-> TRUE]}

\* the optional attributes a patient comes with: none, the old names, or
\* the names the check looks for
NoOptional == {}
OldOptional == {"e_s", "e_sn", "e_circ", "e_rad", "e_long"}
NewOptional ==
    {"sheet", "sheet_normal", "circumferential", "radial", "longitudinal",
     "strain_weights", "mesh_type", "passive_filling_duration"}
OptionalProfiles == {NoOptional, OldOptional, NewOptional}

\* a patient: mesh and ffun/facets_markers are records or <<>> (absent);
\* the attributes in present carry their own name as value
MakePatient(mesh, ffun, facets_markers, present) ==
    [a \in AttrNames |->
        IF a = "mesh" THEN (IF mesh = <<>> THEN Absent ELSE mesh)
        ELSE IF a = "ffun" THEN (IF ffun = <<>> THEN Absent ELSE ffun)
        ELSE IF a = "facets_markers"
        THEN (IF facets_markers = <<>> THEN Absent ELSE facets_markers)
        ELSE IF a \in present THEN [given |-> a]
        ELSE Absent]

Patients ==
    {MakePatient(mesh, ffun, fm, fibers \cup marks \cup cells \cup opt) :
        mesh \in Meshes \cup {<<>>},
        ffun \in FacetFunctions \cup {<<>>},
        fm \in {<<>>, [rv |-> TRUE]},
        fibers \in SUBSET {"fiber", "e_f", "fiber_angle", "fibers"},
        marks \in SUBSET {"markers"},
        cells \in SUBSET {"sfun", "strain_markers"},
        opt \in OptionalProfiles}

hasattr(p, a) == p[a] # Absent
setattr(p, a, v) == [p EXCEPT ![a] = v]
\* rename_attribute(p, old, new), a helper that is not among the source
\* files: by its name and its use, new gets the value of old and old is
\* deleted
rename_attribute(p, old, new) == [p EXCEPT ![new] = p[old], ![old] = Absent]

\* the value None, and a value made by the check itself
None == [none |-> TRUE]
Made(v) == [made |-> v]

\* the first name of dir(patient) that starts with "fiber", "" if none
first_fiber_prefixed(p) ==
    IF \E k \in 1..Len(FiberPrefixed) : hasattr(p, FiberPrefixed[k])
    THEN FiberPrefixed[CHOOSE k \in 1..Len(FiberPrefixed) :
             /\ hasattr(p, FiberPrefixed[k])
             /\ \A j \in 1..(k - 1) : ~hasattr(p, FiberPrefixed[j])]
    ELSE ""

\* lines 124-140: the fiber field under any of its names (the patient is
\* returned as it is when the check raises here)
fibers_checked(p) ==
    IF hasattr(p, "fiber") THEN p
    ELSE IF hasattr(p, "e_f") THEN rename_attribute(p, "e_f", "fiber")
    ELSE IF first_fiber_prefixed(p) = "" THEN p
    ELSE rename_attribute(p, first_fiber_prefixed(p), "fiber")

\* lines 142-154: sheet and sheet_normal, None when not given
sheets_checked(p) ==
    LET q == IF hasattr(p, "sheet") THEN p
             ELSE IF hasattr(p, "e_s") THEN rename_attribute(p, "e_s", "sheet")
             ELSE setattr(p, "sheet", None)
    IN IF hasattr(q, "sheet_normal") THEN q
       ELSE IF hasattr(q, "e_sn")
       THEN rename_attribute(q, "e_sn", "sheet_normal")
       ELSE setattr(q, "sheet_normal", None)

\* one line of 158-168: new named after old when only old is there
basis_renamed(p, old, new) ==
    IF ~hasattr(p, new) /\ hasattr(p, old) THEN rename_attribute(p, old, new)
    ELSE p

\* lines 158-168: the local basis
basis_checked(p) ==
    basis_renamed(basis_renamed(basis_renamed(p, "e_circ", "circumferential"),
                                "e_rad", "radial"),
                  "e_long", "longitudinal")

\* lines 176-190: the facet function, made from the mesh domains when
\* neither ffun nor facets_markers is given
facets_checked(p) ==
    IF hasattr(p, "ffun") THEN p
    ELSE IF hasattr(p, "facets_markers")
    THEN rename_attribute(p, "facets_markers", "ffun")
    ELSE setattr(p, "ffun", [rv |-> p["mesh"].rv])

\* (variant: the cell function is never made)
cells_checked_never(p) == p

\* lines 192-206: the cell function of a 3-dimensional mesh
cells_checked(p) ==
    IF p["mesh"].dim = 3 /\ ~hasattr(p, "sfun")
    THEN (IF hasattr(p, "strain_markers")
          THEN rename_attribute(p, "strain_markers", "sfun")
          ELSE setattr(p, "sfun", Made("sfun")))
    ELSE p

\* lines 210-224: strain_weights, mesh_type, passive_filling_duration
others_checked(p) ==
    LET q == IF hasattr(p, "strain_weights") THEN p
             ELSE setattr(p, "strain_weights", None)
        r == IF hasattr(q, "mesh_type") THEN q
             ELSE setattr(q, "mesh_type",
                          Made(IF q["ffun"].rv THEN "biv" ELSE "lv"))
    IN IF hasattr(r, "passive_filling_duration") THEN r
       ELSE setattr(r, "passive_filling_duration", Made("1"))

\* the attribute the AttributeError names, "" when the check passes
missing_attribute(p) ==
    IF ~hasattr(p, "mesh") THEN "mesh"
    ELSE IF ~hasattr(fibers_checked(p), "fiber") THEN "fiber"
    ELSE IF ~hasattr(p, "markers") THEN "markers"
    ELSE ""

CpaLast(outcome, missing) == [outcome |-> outcome, missing |-> missing]

\* check_patient_attributes(patient) returns
CheckPatientAttributes ==
    /\ missing_attribute(patient) = ""
    /\ patient' = others_checked(cells_checked(facets_checked(
                      basis_checked(sheets_checked(fibers_checked(patient))))))
    /\ patient_in' = patient
    /\ cpa_last' = CpaLast("return", "")
    /\ UNCHANGED notPatient

\* check_patient_attributes(patient) raises AttributeError; what ran before
\* the raise has changed the patient
CheckPatientAttributesRaises ==
    /\ missing_attribute(patient) # ""
    /\ patient' =
           IF missing_attribute(patient) = "markers"
           THEN basis_checked(sheets_checked(fibers_checked(patient)))
           ELSE patient
    /\ patient_in' = patient
    /\ cpa_last' = CpaLast("raise", missing_attribute(patient))
    /\ UNCHANGED notPatient

InitPatient ==
    /\ patient \in Patients
    /\ patient_in = patient
    /\ cpa_last = CpaLast("none", "")

\* a patient with nothing but a mesh, not checked
IdlePatient ==
    /\ patient = MakePatient([dim |-> 3, rv |-> FALSE], <<>>, <<>>, {})
    /\ patient_in = patient
    /\ cpa_last = CpaLast("none", "")

NextPatient ==
    \/ CheckPatientAttributes
    \/ CheckPatientAttributesRaises

(***************************************************************************)
(* setup_optimization.py: merge_control.  A string is the sequence of its  *)
(* characters.                                                             *)
(***************************************************************************)
Digits == <<"0", "1", "2", "3", "4", "5", "6", "7", "8", "9">>
\* groups of one or two different region ids, in any order
IdGroups ==
    {<<a>> : a \in RegionIds}
    \cup {<<pair[1], pair[2]>> :
              pair \in {p \in RegionIds \X RegionIds : p[1] # p[2]}}
\* the lists of at most MaxGroups groups
GroupLists == UNION {[1..n -> IdGroups] : n \in 0..MaxGroups}

\* the text of a list of items with sep between them
RECURSIVE joined(_, _)
joined(items, sep) ==
    IF items = <<>> THEN <<>>
    ELSE IF Len(items) = 1 THEN items[1]
    ELSE items[1] \o <<sep>> \o joined(Tail(items), sep)

\* the control string that names the groups: ids separated by commas,
\* groups by colons, as in "1,2:3,4"
ControlStr(groups) ==
    joined([g \in 1..Len(groups) |->
               joined([i \in 1..Len(groups[g]) |-> <<Digits[groups[g][i] + 1]>>],
                      ",")],
           ":")

\* str.split(sep)
RECURSIVE split(_, _)
split(s, sep) ==
    IF \A i \in 1..Len(s) : s[i] # sep THEN <<s>>
    ELSE LET i == CHOOSE k \in 1..Len(s) :
                      s[k] = sep /\ \A j \in 1..(k - 1) : s[j] # sep
         IN  <<SubSeq(s, 1, i - 1)>> \o split(SubSeq(s, i + 1, Len(s)), sep)

\* int of a string of decimal digits
RECURSIVE int(_)
int(token) ==
    LET d == (CHOOSE k \in 1..10 : Digits[k] = token[Len(token)]) - 1
    IN  IF Len(token) = 1 THEN d
        ELSE 10 * int(SubSeq(token, 1, Len(token) - 1)) + d

\* sorted(np.array(v.split(","), dtype=int))
sorted_ids(v) ==
    LET tokens == split(v, ",")
    IN  SortSeq([i \in 1..Len(tokens) |-> int(tokens[i])],
                LAMBDA a, b : a < b)

\* sfun.array()[sfun.array() == vi] = min_val
relabelled(array, vi, min_val) ==
    [c \in DOMAIN array |-> IF array[c] = vi THEN min_val ELSE array[c]]

\* the loop over vals[1:] (lines 46-47) from the array as it is
RECURSIVE merge_ids(_, _, _)
merge_ids(array, rest, min_val) ==
    IF rest = <<>> THEN array
    ELSE merge_ids(relabelled(array, Head(rest), min_val), Tail(rest),
                   min_val)

\* (variant: the ids of a group are merged into the largest)
merge_group_into_largest(array, v) ==
    LET vals == sorted_ids(v)
    IN  merge_ids(array, SubSeq(vals, 1, Len(vals) - 1), vals[Len(vals)])

\* one pass of the loop over the groups (lines 43-47)
merge_group(array, v) ==
    LET vals == sorted_ids(v)
    IN  merge_ids(array, Tail(vals), vals[1])

RECURSIVE merge_groups(_, _)
merge_groups(array, vs) ==
    IF vs = <<>> THEN array
    ELSE merge_groups(merge_group(array, Head(vs)), Tail(vs))

\* the array of the region map merge_control returns: a copy of
\* patient.sfun's array, relabelled group after group
merge_control(array, control_str) ==
    IF control_str # <<>> THEN merge_groups(array, split(control_str, ":"))
    ELSE array

McLast(op, groups, control_str, sfun_in, result) ==
    [op |-> op, groups |-> groups, control_str |-> control_str,
     sfun_in |-> sfun_in, result |-> result]

\* merge_control(patient, control_str) on the inputs drawn at the start;
\* the new mesh function gets a copy of the values (line 41), patient.sfun
\* is only read
MergeControl ==
    /\ mc_last.op = "none"
    /\ mc_last' = McLast("merge_control", mc_last.groups,
                         mc_last.control_str, mc_sfun,
                         merge_control(mc_sfun, mc_last.control_str))
    /\ UNCHANGED mc_sfun
    /\ UNCHANGED notMerge

\* a region map and a control string that names groups, nothing merged yet
InitMerge ==
    /\ mc_sfun \in MeshFunctions
    /\ \E groups \in GroupLists :
           mc_last = McLast("none", groups, ControlStr(groups), mc_sfun, <<>>)

\* a region map of one region, nothing merged
IdleMerge ==
    /\ mc_sfun = [c \in Cells |-> 1]
    /\ mc_last = McLast("none", <<>>, <<>>, mc_sfun, <<>>)

NextMerge == MergeControl

(***************************************************************************)
(* setup_optimization.py: get_measurements                                 *)
(***************************************************************************)
\* PHASES of adjoint_contraction_args
Phases == <<"passive_inflation", "active_contraction", "all">>
\* measured cavity pressures
PressureVals == {2, 5}
\* the strain regions of a patient with strain
StrainRegions == {1, 2}
\* the volume series of num_points entries, and the cavity volume of the mesh
MeasuredVolumes(num_points) == [i \in 1..num_points |-> 100 + 10 * i]
MeshVolume == [lv |-> 95, rv |-> 60]
\* the strain of a region: a triple per point
MeasuredStrain(num_points) ==
    [region \in StrainRegions |-> [i \in 1..num_points |-> <<region, i, 1>>]]
\* the weights of the targets in Passive_/Active_optimization_weigths
TargetWeights ==
    [volume : {0, 1}, rv_volume : {0, 1}, regional_strain : {0, 1}]

\* patients with num_points measurements, passive filling lasting
\* 1..num_points of them, with or without strain and right-ventricular data
MeasuredPatients ==
    UNION {[num_points : {n}, passive_filling_duration : 1..n,
            pressure : [1..n -> PressureVals],
            volume : {MeasuredVolumes(n)},
            has_strain : BOOLEAN, strain : {MeasuredStrain(n)},
            has_rv : BOOLEAN, RVP : {[i \in 1..n |-> 1 + i]},
            RVV : {[i \in 1..n |-> 70 + 10 * i]}] : n \in 1..MaxPoints}

\* a bound of a Python slice on a sequence of n entries
slice_bound(i, n) ==
    IF i < 0 THEN (IF i + n < 0 THEN 0 ELSE i + n)
    ELSE IF i > n THEN n ELSE i

\* s[start:end]
slice(s, start, end) ==
    LET a == slice_bound(start, Len(s))
        b == slice_bound(end, Len(s))
    IN  IF a >= b THEN <<>> ELSE SubSeq(s, a + 1, b)

\* lines 545-571: the window of the phase
window(phase, unload, pat) ==
    LET start == IF phase = Phases[1] THEN 0
                 ELSE IF phase = Phases[2]
                      THEN pat.passive_filling_duration - 1
                           + (IF unload THEN 1 ELSE 0)
                      ELSE 0
        end == IF phase = Phases[1] THEN pat.passive_filling_duration
               ELSE pat.num_points
    IN  [start |-> start, end |-> end + (IF unload THEN 1 ELSE 0)]

\* lines 573-580: the targets in use
targets_in_use(phase, pvals, pat) ==
    [volume |-> pvals.volume > 0 \/ phase = "all",
     rv_volume |-> pat.has_rv /\ (pvals.rv_volume > 0 \/ phase = "all"),
     regional_strain |->
         pat.has_strain /\ (pvals.regional_strain > 0 \/ phase = "all")]

\* (variant: the pressure as measured)
offset_pressure_as_measured(pressure, unload) ==
    IF unload THEN <<0>> \o pressure ELSE pressure

\* lines 585-600: the pressure with the reference pressure subtracted, one
\* zero prepended under unload
offset_pressure(pressure, unload) ==
    LET reference_pressure == IF unload THEN 0 ELSE pressure[1]
        p == IF unload THEN <<0>> \o pressure ELSE pressure
    IN  [i \in 1..Len(p) |-> p[i] - reference_pressure]

\* get_volume_offset with geometry_index "-1"
get_volume_offset(series, pat, chamber) ==
    series[pat.passive_filling_duration] - MeshVolume[chamber]

\* lines 618-626: the volume with the offset subtracted, -1 prepended
\* under unload
offset_volume(series, pat, unload, chamber) ==
    LET volume == [i \in 1..Len(series) |->
                      series[i] - get_volume_offset(series, pat, chamber)]
    IN  IF unload THEN <<-1>> \o volume ELSE volume

\* lines 646-653: the strain of one region, a zero triple prepended under
\* unload
padded_strain(s, unload) == IF unload THEN <<<<0, 0, 0>>>> \o s ELSE s

\* the dictionary get_measurements returns; a key that is not set holds
\* the empty sequence
measurements_of(phase, unload, pvals, pat) ==
    LET w == window(phase, unload, pat)
        p == targets_in_use(phase, pvals, pat)
    IN  [keys |-> {"pressure"}
                  \cup (IF pat.has_rv THEN {"rv_pressure"} ELSE {})
                  \cup (IF p.volume THEN {"volume"} ELSE {})
                  \cup (IF p.rv_volume THEN {"rv_volume"} ELSE {})
                  \cup (IF p.regional_strain THEN {"regional_strain"} ELSE {}),
         pressure |-> slice(offset_pressure(pat.pressure, unload),
                            w.start, w.end),
         rv_pressure |->
             IF pat.has_rv
             THEN slice(offset_pressure(pat.RVP, unload), w.start, w.end)
             ELSE <<>>,
         volume |->
             IF p.volume
             THEN slice(offset_volume(pat.volume, pat, unload, "lv"),
                        w.start, w.end)
             ELSE <<>>,
         rv_volume |->
             IF p.rv_volume
             THEN slice(offset_volume(pat.RVV, pat, unload, "rv"),
                        w.start, w.end)
             ELSE <<>>,
         regional_strain |->
             IF p.regional_strain
             THEN [region \in StrainRegions |->
                      slice(padded_strain(pat.strain[region], unload),
                            w.start, w.end)]
             ELSE <<>>]

GmLast(op, phase, unload, w, measurements) ==
    [op |-> op, phase |-> phase, unload |-> unload, start |-> w.start,
     end |-> w.end, measurements |-> measurements]

NoWindow == [start |-> 0, end |-> 0]

\* get_measurements(params, patient): the targets in use are written to
\* params["Optimization_targets"], the patient is only read
GetMeasurements(phase, unload, pvals) ==
    /\ gm_targets' = targets_in_use(phase, pvals, gm_patient)
    /\ gm_last' = GmLast("get_measurements", phase, unload,
                         window(phase, unload, gm_patient),
                         measurements_of(phase, unload, pvals, gm_patient))
    /\ UNCHANGED gm_patient
    /\ UNCHANGED notMeas

NoTargets ==
    [volume |-> FALSE, rv_volume |-> FALSE, regional_strain |-> FALSE]

InitMeas ==
    /\ gm_patient \in MeasuredPatients
    /\ gm_targets = NoTargets
    /\ gm_last = GmLast("none", "", FALSE, NoWindow, <<>>)

\* a patient with one measurement, nothing asked for
IdleMeas ==
    /\ gm_patient = [num_points |-> 1, passive_filling_duration |-> 1,
                     pressure |-> <<2>>, volume |-> MeasuredVolumes(1),
                     has_strain |-> FALSE, strain |-> MeasuredStrain(1),
                     has_rv |-> FALSE, RVP |-> <<2>>, RVV |-> <<80>>]
    /\ gm_targets = NoTargets
    /\ gm_last = GmLast("none", "", FALSE, NoWindow, <<>>)

NextMeas ==
    \E i \in 1..3, unload \in BOOLEAN, pvals \in TargetWeights :
        GetMeasurements(Phases[i], unload, pvals)

(***************************************************************************)
(* io/store_results.py: passive_inflation_exists, contract_point_exists    *)
(***************************************************************************)
\* values of params["active_contraction_iteration_number"]
IterationNumbers == {0, 1}
\* what the active-contraction group holds for one contraction point:
\* nothing, a group without bcs/pressure, or a complete group
PointContents == {"absent", "no_pressure", "complete"}

NoFile ==
    [exists |-> FALSE, passive_inflation |-> FALSE,
     active_contraction |-> FALSE,
     points |-> [n \in IterationNumbers |-> "absent"]]

\* the simulation files: none, or an HDF5 file with or without the
\* passive-inflation group and the active-contraction group
SimFiles ==
    {NoFile}
    \cup [exists : {TRUE}, passive_inflation : BOOLEAN,
          active_contraction : {FALSE},
          points : {[n \in IterationNumbers |-> "absent"]}]
    \cup [exists : {TRUE}, passive_inflation : BOOLEAN,
          active_contraction : {TRUE},
          points : [IterationNumbers -> PointContents]]

\* how a call was left: by return or raise, with what value, whether the
\* file was opened and whether it was closed again
Exit(outcome, value, opened, closed) ==
    [outcome |-> outcome, value |-> value, opened |-> opened,
     closed |-> closed]

\* passive_inflation_exists (lines 366-383)
passive_inflation_exit(file) ==
    IF ~file.exists THEN Exit("return", FALSE, FALSE, FALSE)
    ELSE IF file.passive_inflation THEN Exit("return", TRUE, TRUE, TRUE)
    ELSE Exit("return", FALSE, TRUE, TRUE)

\* contract_point_exists (lines 385-427)
contract_point_exit(file, phase, number) ==
    IF ~file.exists THEN Exit("IOError", FALSE, FALSE, FALSE)
    ELSE IF ~file.passive_inflation THEN Exit("IOError", FALSE, TRUE, FALSE)
    ELSE IF phase = Phases[1] THEN Exit("return", FALSE, TRUE, TRUE)
    ELSE IF ~file.active_contraction THEN Exit("return", FALSE, TRUE, TRUE)
    ELSE IF file.points[number] = "complete"
         THEN Exit("return", TRUE, TRUE, TRUE)
    ELSE \* no such point, or KeyError on ["bcs"]["pressure"]
         Exit("return", FALSE, TRUE, TRUE)

StLast(op, phase, number, exit) ==
    [op |-> op, phase |-> phase, number |-> number, exit |-> exit]

\* the handles left open after a call that was left by exit
handles_after(handles, exit) ==
    IF exit.opened /\ ~exit.closed THEN handles + 1 ELSE handles

PassiveInflationExists ==
    /\ st_calls < MaxStoreCalls
    /\ st_calls' = st_calls + 1
    /\ st_last' = StLast("passive_inflation_exists", "", 0,
                         passive_inflation_exit(sim_file))
    /\ open_handles' =
           handles_after(open_handles, passive_inflation_exit(sim_file))
    /\ UNCHANGED sim_file
    /\ UNCHANGED notStore

\* contract_point_exists returns
ContractPointExists(phase, number) ==
    /\ st_calls < MaxStoreCalls
    /\ contract_point_exit(sim_file, phase, number).outcome = "return"
    /\ st_calls' = st_calls + 1
    /\ st_last' = StLast("contract_point_exists", phase, number,
                         contract_point_exit(sim_file, phase, number))
    /\ open_handles' =
           handles_after(open_handles,
                         contract_point_exit(sim_file, phase, number))
    /\ UNCHANGED sim_file
    /\ UNCHANGED notStore

\* contract_point_exists raises IOError (lines 390 and 403)
ContractPointExistsRaises(phase, number) ==
    /\ st_calls < MaxStoreCalls
    /\ contract_point_exit(sim_file, phase, number).outcome = "IOError"
    /\ st_calls' = st_calls + 1
    /\ st_last' = StLast("contract_point_exists", phase, number,
                         contract_point_exit(sim_file, phase, number))
    /\ open_handles' =
           handles_after(open_handles,
                         contract_point_exit(sim_file, phase, number))
    /\ UNCHANGED sim_file
    /\ UNCHANGED notStore

InitStore ==
    /\ sim_file \in SimFiles
    /\ open_handles = 0
    /\ st_calls = 0
    /\ st_last = StLast("none", "", 0, Exit("none", FALSE, FALSE, FALSE))

\* no simulation file, nothing called
IdleStore ==
    /\ sim_file = NoFile
    /\ open_handles = 0
    /\ st_calls = 0
    /\ st_last = StLast("none", "", 0, Exit("none", FALSE, FALSE, FALSE))

NextStore ==
    \/ PassiveInflationExists
    \/ \E i \in 1..3, number \in IterationNumbers :
           ContractPointExists(Phases[i], number)
    \/ \E i \in 1..3, number \in IterationNumbers :
           ContractPointExistsRaises(Phases[i], number)

\* the other components at rest
IdleDriver == InitDriver /\ scale = 1

Init ==
    /\ InitDriver /\ InitMaterial /\ InitReg
    /\ InitVolumeTarget /\ IdleEnergy /\ IdleRegional /\ IdlePatient /\ IdleMerge /\ IdleMeas /\ IdleStore
InitVolume ==
    /\ IdleDriver /\ InitMaterial /\ InitReg
    /\ InitVolumeTarget /\ IdleEnergy /\ IdleRegional /\ IdlePatient /\ IdleMerge /\ IdleMeas /\ IdleStore
InitStrain ==
    /\ IdleDriver /\ InitMaterial /\ InitReg
    /\ InitStrainTarget /\ IdleEnergy /\ IdleRegional /\ IdlePatient /\ IdleMerge /\ IdleMeas /\ IdleStore
InitEnergies ==
    /\ IdleDriver /\ InitMaterial /\ InitReg
    /\ InitVolumeTarget /\ InitEnergy /\ IdleRegional /\ IdlePatient /\ IdleMerge /\ IdleMeas /\ IdleStore
InitTargets ==
    /\ IdleDriver /\ InitMaterial /\ InitReg
    /\ (InitVolumeTarget \/ InitStrainTarget) /\ IdleEnergy /\ IdleRegional /\ IdlePatient /\ IdleMerge /\ IdleMeas /\ IdleStore
InitPatients ==
    /\ IdleDriver /\ InitMaterial /\ InitReg
    /\ InitVolumeTarget /\ IdleEnergy /\ IdleRegional /\ InitPatient /\ IdleMerge /\ IdleMeas /\ IdleStore
InitRegionals ==
    /\ IdleDriver /\ InitMaterial /\ InitReg
    /\ InitVolumeTarget /\ IdleEnergy /\ InitRegional /\ IdlePatient /\ IdleMerge /\ IdleMeas /\ IdleStore
InitMerges ==
    /\ IdleDriver /\ InitMaterial /\ InitReg
    /\ InitVolumeTarget /\ IdleEnergy /\ IdleRegional /\ IdlePatient /\ InitMerge /\ IdleMeas /\ IdleStore
InitMeasurements ==
    /\ IdleDriver /\ InitMaterial /\ InitReg
    /\ InitVolumeTarget /\ IdleEnergy /\ IdleRegional /\ IdlePatient /\ IdleMerge /\ InitMeas /\ IdleStore
InitStores ==
    /\ IdleDriver /\ InitMaterial /\ InitReg
    /\ InitVolumeTarget /\ IdleEnergy /\ IdleRegional /\ IdlePatient /\ IdleMerge /\ IdleMeas /\ InitStore

NextDriver ==
    \/ \E value \in Values, fv \in FuncVals, crash \in BOOLEAN :
           Evaluate(value, ForRes(fv), crash)
    \/ \E value \in Values : EvaluateForRunRaises(value)
    \/ \E value \in Values : EvaluateNoControls(value)
    \/ \E out \in Gradients : Derivative(out)
    \/ \E out \in Gradients : DerivativeNaN(out)
    \/ ResetFresh
    \/ Reset

SpecDriver == Init /\ [][NextDriver]_vars

SpecMaterial == Init /\ [][NextMaterial]_vars

SpecReg == Init /\ [][NextReg]_vars

SpecVolume == InitVolume /\ [][NextTarget]_vars

SpecStrain == InitStrain /\ [][NextTarget]_vars

\* targets of both classes
SpecTargets == InitTargets /\ [][NextTarget]_vars

SpecEnergy == InitEnergies /\ [][NextEnergy]_vars

SpecRegional == InitRegionals /\ [][NextRegional]_vars

SpecPatient == InitPatients /\ [][NextPatient]_vars

SpecMerge == InitMerges /\ [][NextMerge]_vars

SpecMeas == InitMeasurements /\ [][NextMeas]_vars

SpecStore == InitStores /\ [][NextStore]_vars

(***************************************************************************)
(* Properties of the driver                                                *)
(***************************************************************************)
EvaluateReturned == last.op = "evaluate" /\ last.outcome = "return"
EvaluateRaised == last.op = "evaluate" /\ last.outcome = "raise"

\* C1: whenever __call__ has returned, on the normal path and on the path
\* of a crashed forward solve alike, recording is off again
\* (stop_annotating is True).
C1_RecordingOffOnReturn == EvaluateReturned => stop_annotating = TRUE

\* C1 witness: __call__ has returned from a crashed forward solve and
\* recording is off.
C1_Witness == EvaluateReturned /\ last.crash /\ stop_annotating = TRUE

\* C2 (as claimed): in every state reached after __call__ has been left by
\* an exception, recording is off.
C2_RecordingOffOnRaise == EvaluateRaised => stop_annotating = TRUE

C4_ScaledValueReturnedAndLogged ==
    EvaluateReturned /\ ~last.crash =>
        /\ ret = Fin(scale * for_res.func_value)
        /\ Len(func_values_lst) > 0
        /\ func_values_lst[Len(func_values_lst)] = ret
        /\ func_it[Len(func_it)] = iter

\* C4 witness: a call without a crash returned a value that the scale factor
\* changed.
C4_Witness ==
    /\ EvaluateReturned /\ ~last.crash
    /\ scale = 2 /\ for_res.func_value = 1 /\ ret = Fin(2)

\* C5: derivative returns every component of the adjoint gradient times
\* scale*relax; it raises, returning nothing, exactly when a component is
\* NaN, and then appends nothing to grad_norm or grad_norm_scaled.
C5_DerivativeScaledOrRaises ==
    [][last'.op = "derivative" =>
          /\ (last'.outcome = "raise") <=>
                 (\E i \in DOMAIN adjoint_out' : adjoint_out'[i].k = "nan")
          /\ last'.outcome = "return" =>
                 /\ DOMAIN ret_grad' = DOMAIN adjoint_out'
                 /\ \A i \in DOMAIN adjoint_out' :
                        ret_grad'[i] =
                            Fin(scale * derivative_scale * adjoint_out'[i].v)
          /\ last'.outcome = "raise" =>
                 /\ ret_grad' = <<>>
                 /\ grad_norm' = grad_norm
                 /\ grad_norm_scaled' = grad_norm_scaled]_vars

\* C5 witness: derivative raised on a NaN gradient after an earlier call had
\* logged a norm; the logs still hold that one entry.
C5_Witness ==
    /\ last.op = "derivative" /\ last.outcome = "raise"
    /\ adjoint_out[1].k = "nan"
    /\ Len(grad_norm) = 1 /\ Len(grad_norm_scaled) = 1

\* number of entries of a log that were logged before iteration it
logged_before(tags, it) == Cardinality({i \in DOMAIN tags : tags[i] < it})

\* C6 (as claimed): when the most recent evaluate has completed, reset()
\* discards exactly the entries the most recent iteration logged (functional
\* value, control snapshot, raw and scaled gradient norms) and keeps every
\* entry an earlier iteration logged.
C6_ResetDiscardsLastIteration ==
    [][/\ last'.op = "reset"
       /\ ini_for_res.set
       /\ Len(func_it) > 0
       /\ func_it[Len(func_it)] = iter
       =>
       /\ func_values_lst' =
              SubSeq(func_values_lst, 1, logged_before(func_it, iter))
       /\ controls_lst' = SubSeq(controls_lst, 1, logged_before(func_it, iter))
       /\ grad_norm' = SubSeq(grad_norm, 1, logged_before(grad_it, iter))
       /\ grad_norm_scaled' =
              SubSeq(grad_norm_scaled, 1, logged_before(grad_it, iter))]_vars

\* what a value object holds, by kind
value_content(v) ==
    IF v.kind = "float" THEN <<v.x>>
    ELSE IF v.kind = "Enlisted" THEN v.items[1].vec
    ELSE IF v.kind = "Function" THEN v.vec ELSE v.arr

\* C7: evaluate leaves the value object it was given and the stored control
\* self.paramvec as they were, for every kind of value; the forward solve is
\* handed a copy holding the proposed value.
C7_ControlCopied ==
    [][last'.op = "evaluate" =>
          /\ paramvec' = paramvec
          /\ value_out' = value_in'
          /\ last'.outcome = "return" =>
                 /\ solver_arg' = value_content(value_in')
                 /\ controls_lst'[Len(controls_lst')] = value_content(value_in')]_vars

\* C7 witness: evaluate returned for an Enlisted value that differs from the
\* stored control, which is unchanged.
C7_Witness ==
    /\ EvaluateReturned
    /\ value_in.kind = "Enlisted"
    /\ solver_arg = <<1>> /\ paramvec = <<0>>
    /\ value_out = value_in

(***************************************************************************)
(* Properties of the material constructors                                 *)
(***************************************************************************)
\* C8 (as claimed): constructing a material of any variant with a tag
\* outside {active_stress, active_strain, active_strain_rossi} fails, so no
\* material object that exists carries such a tag.
C8_NoMaterialWithInvalidTag ==
    /\ \A m \in materials :
           m.active_model # NoTag =>
               m.active_model \in
                   {"active_stress", "active_strain", "active_strain_rossi"}
    /\ mat_last.outcome = "return" /\ mat_last.active_model # NoTag =>
           mat_last.active_model \in
               {"active_stress", "active_strain", "active_strain_rossi"}

(***************************************************************************)
(* Properties of the Regularization                                        *)
(***************************************************************************)
\* C9: constructing a Regularization with a space tag outside
\* {CG_1, regional, R_0} fails; every Regularization object that exists has
\* one of these three tags.
C9_RegularizationSpaceKnown ==
    /\ reg.exists => reg.space \in {"CG_1", "regional", "R_0"}
    /\ reg_last.op = "init" /\ reg_last.space \notin {"CG_1", "regional", "R_0"}
           => reg_last.outcome = "raise"

\* C9 witness: a construction with the tag R_1 has failed; the object built
\* before it is still the one that exists.
C9_Witness ==
    /\ reg_last.op = "init" /\ reg_last.outcome = "raise"
    /\ reg_last.space = "R_1"
    /\ reg.exists /\ reg.space = "CG_1"

\* C10: for space = R_0 the form is the zero form for every control m and
\* every lmbda: get_functional returns it without error, get_value() is 0
\* and every logged func_value is 0.
C10_R0IsZero ==
    reg.exists /\ reg.space = "R_0" =>
        /\ get_value(reg) = 0
        /\ \A i \in DOMAIN reg.func_value : reg.func_value[i] = 0
        /\ reg_last.op = "get_functional" =>
               /\ reg_last.outcome = "return"
               /\ reg_ret.value = 0

\* C10 witness: an R_0 regularization with weight 2 was evaluated on a
\* control that is not constant, after a value had been saved.
C10_Witness ==
    /\ reg.exists /\ reg.space = "R_0" /\ reg.lmbda = 2
    /\ reg_last.op = "get_functional"
    /\ \E i \in DOMAIN reg_m : reg_m[i] # reg_m[1]
    /\ Len(reg.func_value) >= 1

\* C11 (as claimed): for space = regional, get_form(m) returns the mean
\* squared deviation of the regions' values from their mean; the call
\* completes without error.
C11_RegionalFormCompletes ==
    reg_last.op = "get_functional" /\ reg_last.space = "regional" =>
        reg_last.outcome = "return"

\* C12: the VolumeTarget functional is the squared relative misfit
\* ((target - simulated)/target)^2: after assign_functional it is 0 whenever
\* the non-zero target volume equals the simulated one, and 0.01 for target
\* 100 and simulated 110.
C12_VolumeRelativeMisfit ==
    tgt.variant = "Volume" /\ tgt_last.op = "assign_functional"
            /\ tgt_last.outcome = "return" =>
        /\ tgt.target_fun[1] # 0 /\ tgt.target_fun = tgt.simulated_fun =>
               target_value(tgt) = QInt(0)
        /\ tgt.target_fun = <<100>> /\ tgt.simulated_fun = <<110>> =>
               target_value(tgt) = Q(1, 100)

\* C12 witness: the functional was assigned with target 100, simulated 110
C12_Witness ==
    /\ tgt.variant = "Volume" /\ tgt_last.op = "assign_functional"
    /\ tgt.target_fun = <<100>> /\ tgt.simulated_fun = <<110>>
    /\ target_value(tgt) = Q(1, 100)

\* C13: for a RegionalStrainTarget whose 17 simulated strains equal its 17
\* target strains, get_value() after assign_functional is exactly 0,
\* whatever the weights array.
C13_EqualStrainsGiveZero ==
    tgt.variant = "RegionalStrain" /\ tgt_last.op = "assign_functional"
            /\ tgt_last.outcome = "return"
            /\ tgt.simulated_fun = tgt.target_fun =>
        target_value(tgt) = 0

\* C13 witness: the functional was assigned with equal non-zero strains
C13_Witness ==
    /\ tgt.variant = "RegionalStrain" /\ tgt_last.op = "assign_functional"
    /\ tgt.simulated_fun = tgt.target_fun
    /\ tgt.target_fun = UniformStrain
    /\ target_value(tgt) = 0

\* C14 (as claimed): after set_target_functions, for every segment i in
\* 1..17 the weight tensor of form i is the diagonal tensor built from row
\* i of the weights array, so a segment with a non-zero weight row and a
\* non-zero strain difference contributes a strictly positive amount.
C14_EverySegmentWeighted ==
    tgt.variant = "RegionalStrain" /\ tgt.allocated =>
        /\ \A i \in Segments : tgt.weights[i] = strain_weight(tgt.weights_arr[i])
        /\ tgt_last.op = "assign_functional" =>
               \A i \in Segments :
                   tgt.simulated_fun[i] # tgt.target_fun[i] =>
                       tgt.functional[i] > 0

\* C15: HolzapfelOgden W_4(I4, diff=0) is exactly 0 for every I4 <= 1
\* (I4 = 1 included) and strictly increasing in I4 for I4 > 1, for positive
\* a_f and b_f.
C15_W4GatedAndIncreasing ==
    mat.variant = "HolzapfelOgden" /\ en_last.op = "W_4"
            /\ en_last.args[2] = 0 =>
        /\ ~QLess(QInt(1), en_last.args[1]) => en_last.result = ZeroVal
        /\ en_prev.op = "W_4" /\ en_prev.args[2] = 0
                /\ QLess(QInt(1), en_prev.args[1])
                /\ QLess(en_prev.args[1], en_last.args[1]) =>
               ValLess(en_prev.result, en_last.result)

\* C15 witness: W_4 was evaluated at the gate I4 = 1 and then above it
C15_Witness ==
    /\ mat.variant = "HolzapfelOgden"
    /\ en_prev.op = "W_4" /\ en_prev.args = <<QInt(1), 0>>
    /\ en_prev.result = ZeroVal
    /\ en_last.op = "W_4" /\ en_last.args = <<Q(11, 10), 0>>
    /\ en_last.result # ZeroVal

\* the last evaluation is strain_energy in active_stress mode, with
\* gamma = 0 and a deformation that stretches the fiber direction
StressModeNoActivationFiberStretch ==
    /\ en_last.op = "strain_energy"
    /\ mat.active_model = "active_stress" /\ mat.gamma = QInt(0)
    /\ mat.f0 /\ QLess(QInt(1), en_last.args[1][1])

\* C17 (as claimed): in active_stress mode with gamma = 0 and a deformation
\* that stretches the fiber direction, Wactive is 0 and strain_energy
\* reduces to the isotropic term only, W = W1.
C17_ReducesToIsotropicTerm ==
    StressModeNoActivationFiberStretch =>
        /\ en_last.result.Wactive = ZeroVal
        /\ en_last.result.W = ValSum(<<en_last.result.W1>>)

\* C17 (amended): in active_stress mode with gamma = 0 and a deformation
\* that stretches the fiber direction, Wactive is 0 and strain_energy
\* reduces to the passive terms, W = W1 + W4f; the fiber term W4f is zero
\* (W = W1) for a NeoHookean and non-zero for a HolzapfelOgden material.
C17_ReducesToPassiveTerms ==
    StressModeNoActivationFiberStretch =>
        /\ en_last.result.Wactive = ZeroVal
        /\ en_last.result.W = ValSum(<<en_last.result.W1, en_last.result.W4f>>)
        /\ mat.variant = "NeoHookean" =>
               en_last.result.W = ValSum(<<en_last.result.W1>>)
        /\ mat.variant = "HolzapfelOgden" =>
               /\ en_last.result.W4f # ZeroVal
               /\ en_last.result.W # ValSum(<<en_last.result.W1>>)

\* C17 witness: the demo's material (HolzapfelOgden, active_stress,
\* T_ref = 100) with gamma = 0 under a 10% fiber stretch: no active energy,
\* but a fiber energy
C17_Witness ==
    /\ StressModeNoActivationFiberStretch
    /\ mat.variant = "HolzapfelOgden" /\ mat.T_ref = 100
    /\ en_last.args[1] = <<Q(11, 10), QInt(1), QInt(1)>>
    /\ en_last.result.Wactive = ZeroVal
    /\ en_last.result.W4f # ZeroVal

\* C18: the elastic invariants are selected by the active-model tag:
\* active_stress gives the raw I1 and I4f; active_strain uses
\* mgamma = 1 - gamma and active_strain_rossi mgamma = 1 + gamma in
\* Ie1 = mgamma^(4-d) I1 + (1/mgamma^2 - mgamma^(4-d)) I4f and
\* I4fe = I4f/mgamma^2; with gamma = 0 they equal the raw invariants in all
\* three modes, for d = 2 and d = 3; strain_energy uses the raw pair in
\* active_stress mode and the elastic pair otherwise.
C18_InvariantsSelectedByTag ==
    /\ en_last.op = "invariants" =>
        LET F == en_last.args[1]
            gamma == en_last.args[2]
            d == Len(F)
            raw1 == I1(F)
            raw4 == I4f(mat, F)
            mg == IF mat.active_model = "active_strain"
                  THEN QSub(QInt(1), gamma) ELSE QAdd(QInt(1), gamma)
            mgd == IF d = 3 THEN mg ELSE QMul(mg, mg)
            inv2 == QDiv(QInt(1), QMul(mg, mg))
        IN /\ d \in {2, 3}
           /\ mat.active_model = "active_stress" =>
                  en_last.result = [I1e |-> raw1, I4fe |-> raw4]
           /\ mat.active_model # "active_stress" =>
                  en_last.result =
                      [I1e |-> QAdd(QMul(mgd, raw1),
                                    QMul(QSub(inv2, mgd), raw4)),
                       I4fe |-> QMul(raw4, inv2)]
           /\ gamma = QInt(0) =>
                  en_last.result = [I1e |-> raw1, I4fe |-> raw4]
    /\ en_last.op = "strain_energy" =>
        LET F == en_last.args[1]
        IN IF mat.active_model = "active_stress"
           THEN en_last.result.I1 = I1(F) /\ en_last.result.I4f = I4f(mat, F)
           ELSE /\ en_last.result.I1 = I1e(mat, F, mat.gamma)
                /\ en_last.result.I4f = I4fe(mat, F, mat.gamma)

\* C18 witness: in active_strain mode with gamma = 1/2, the elastic
\* invariants of a 10% fiber stretch in two dimensions: mgamma = 1/2,
\* I4fe = 4 I4f = 121/25 and Ie1 = I1/4 + (4 - 1/4) I4f = 509/100
C18_Witness ==
    /\ en_last.op = "invariants"
    /\ mat.active_model = "active_strain" /\ mat.f0
    /\ en_last.args = <<(<<Q(11, 10), QInt(1)>>), Q(1, 2)>>
    /\ en_last.result = [I1e |-> Q(509, 100), I4fe |-> Q(121, 25)]

\* C16: a RegionalParameter has as many coefficients as its region map has
\* distinct ids; each indicator function is 1 exactly on the cells carrying
\* its id and 0 elsewhere; the supports are pairwise disjoint and cover
\* every cell (the indicators sum to 1 on every cell); get_function() takes
\* on each cell the coefficient paired with that cell's region id.
C16_IndicatorsPartitionTheMesh ==
    LET ids == {rp.meshfunction[c] : c \in Cells}
        n == Cardinality(ids)
    IN /\ rp.nvalues = n /\ Len(rp.coeffs) = n /\ Len(rp.ind_functions) = n
       /\ {rp.values[k] : k \in 1..n} = ids
       /\ \A k \in 1..n : \A c \in Cells :
              rp.ind_functions[k][c] =
                  IF rp.meshfunction[c] = rp.values[k] THEN 1 ELSE 0
       /\ \A j, k \in 1..n : \A c \in Cells :
              j # k => rp.ind_functions[j][c] * rp.ind_functions[k][c] = 0
       /\ \A c \in Cells :
              Cardinality({k \in 1..n : rp.ind_functions[k][c] = 1}) = 1
       /\ rp_last.op = "get_function" =>
              \A c \in Cells : \A k \in 1..n :
                  rp.values[k] = rp.meshfunction[c] =>
                      rp_last.result[c] = rp.coeffs[k]

\* C16 witness: a map with the three ids 1, 2, 3, distinct coefficients, and
\* get_function() called
C16_Witness ==
    /\ {rp.meshfunction[c] : c \in Cells} = {1, 2, 3}
    /\ rp.coeffs[1] # rp.coeffs[2] /\ rp.coeffs[2] # rp.coeffs[3]
    /\ rp.coeffs[1] # rp.coeffs[3]
    /\ rp_last.op = "get_function"
    /\ Cardinality({rp_last.result[c] : c \in Cells}) = 3

\* list new is list old with exactly one entry appended
AppendedOne(old, new) ==
    Len(new) = Len(old) + 1 /\ SubSeq(new, 1, Len(old)) = old

\* C19: the results log of a target is append-only: every save() appends
\* exactly one entry to each of func_value, target and simulated and
\* changes no earlier entry; the three lists always have the same length,
\* the number of save() calls; load_target_data, next_target,
\* assign_simulated and assign_functional leave the log as it is.
C19_ResultsLogAppendOnly ==
    [][/\ tgt_saves' = tgt_saves + 1 =>
              /\ AppendedOne(tgt.results.func_value, tgt'.results.func_value)
              /\ AppendedOne(tgt.results.target, tgt'.results.target)
              /\ AppendedOne(tgt.results.simulated, tgt'.results.simulated)
       /\ tgt_saves' = tgt_saves => tgt'.results = tgt.results
       /\ tgt_last'.op = "save" /\ tgt_last'.outcome = "return" =>
              tgt_saves' = tgt_saves + 1
       /\ tgt_last'.op \in {"load_target_data", "next_target",
                            "assign_simulated", "assign_functional"} =>
              tgt'.results = tgt.results
       /\ Len(tgt'.results.func_value) = tgt_saves'
       /\ Len(tgt'.results.target) = tgt_saves'
       /\ Len(tgt'.results.simulated) = tgt_saves']_vars

\* C19 witness: two saves, with a new target assigned between them
C19_Witness ==
    /\ tgt_saves = 2 /\ tgt_last.op = "save"
    /\ Len(tgt.results.func_value) = 2 /\ Len(tgt.results.target) = 2
    /\ Len(tgt.results.simulated) = 2
    /\ tgt.results.target[1] # tgt.results.target[2]

\* C20: next_target(it) makes the current target equal the snapshot loaded
\* by the it-th load_target_data call (in load order, counted from 0) and
\* changes neither the simulated function, nor the functional value, nor
\* the results log.
C20_NextTargetSelectsLoadedSnapshot ==
    [][tgt_last'.op = "next_target" /\ tgt_last'.outcome = "return"
            /\ tgt_last'.arg[1] >= 0 =>
          /\ tgt_last'.arg[1] < Len(tgt_loaded)
          /\ tgt'.target_fun = tgt_loaded[tgt_last'.arg[1] + 1]
          /\ tgt'.simulated_fun = tgt.simulated_fun
          /\ tgt'.functional = tgt.functional
          /\ target_value(tgt') = target_value(tgt)
          /\ tgt'.results = tgt.results]_vars

\* C20 witness: two different snapshots loaded, next_target(1) called, the
\* current target is the second
C20_Witness ==
    /\ tgt_last.op = "next_target" /\ tgt_last.outcome = "return"
    /\ tgt_last.arg = <<1>>
    /\ Len(tgt_loaded) = 2 /\ tgt_loaded[1] # tgt_loaded[2]
    /\ tgt.target_fun = tgt_loaded[2]

\* C21 (as claimed): a mismatch between the length of the loaded target
\* series and the number of time indices evaluated is a fatal error at setup
\* time: when next_target(it) finds no snapshot for a time index it, no
\* functional has been evaluated yet.
C21_MismatchFatalBeforeEvaluation ==
    tgt.allocated /\ tgt_last.op = "next_target" /\ tgt_last.outcome = "raise"
            /\ tgt_last.arg[1] >= Len(tgt_loaded) =>
        tgt_evals = 0

\* the newest entry of a log
Newest(log) == log[Len(log)]

\* the number held by the functional Function(s) of a target
StoredFunctional(t) ==
    IF t.variant = "RegionalStrain" THEN sum_upto(t.functional, NumSegments)
    ELSE t.functional

\* C22: get_value() has no guard on the evaluation state: after
\* assign_simulated and before assign_functional it returns, without error,
\* the value the previous assign_functional left (the initial value if none
\* ran), and a save() in that state logs this stale value next to the new
\* simulated snapshot.
C22_GetValueIsStaleBeforeAssignFunctional ==
    [][/\ tgt_last'.op = "assign_simulated" /\ tgt_last'.outcome = "return" =>
              /\ tgt'.functional = tgt.functional
              /\ target_value(tgt') = StoredFunctional(tgt)
              /\ tgt_calls' < MaxTargetCalls => ENABLED TgtSave
       /\ tgt_evals' = 0 /\ tgt'.allocated =>
              target_value(tgt') = StoredFunctional(set_target_functions(tgt'))
       /\ tgt_last.op = "assign_simulated" /\ tgt_last.outcome = "return"
               /\ tgt_last'.op = "save" =>
              /\ tgt_last'.outcome = "return"
              /\ Newest(tgt'.results.func_value) = StoredFunctional(tgt)
              /\ Newest(tgt'.results.simulated) = tgt.simulated_fun]_vars

\* C22 witness: target 100, simulated 110 just assigned, no
\* assign_functional yet, and save() logged the initial value 0 (the misfit
\* is 1/100) next to the simulated 110
C22_Witness ==
    /\ tgt.variant = "Volume" /\ tgt_last.op = "save" /\ tgt_evals = 0
    /\ tgt.target_fun = <<100>> /\ tgt.simulated_fun = <<110>>
    /\ Newest(tgt.results.func_value) = QInt(0)
    /\ Newest(tgt.results.simulated) = <<110>>
    /\ volume_form(100, 110) # QInt(0)

\* the attributes a checked patient must have
RequiredAttributes ==
    {"fiber", "sheet", "sheet_normal", "markers", "ffun", "strain_weights",
     "mesh_type", "passive_filling_duration"}

\* C23: check_patient_attributes raises AttributeError when the patient
\* lacks a mesh, lacks markers, or has no fiber field under any accepted
\* name (fiber, e_f, or a name starting with "fiber"); whenever it returns
\* the patient has fiber, sheet, sheet_normal, markers, ffun,
\* strain_weights, mesh_type and passive_filling_duration (and sfun for a
\* 3-dimensional mesh).
C23_PatientChecked ==
    cpa_last.outcome # "none" =>
        /\ (\/ patient_in["mesh"] = Absent
            \/ patient_in["markers"] = Absent
            \/ \A a \in {"fiber", "e_f", "fiber_angle", "fibers"} :
                   patient_in[a] = Absent)
               => cpa_last.outcome = "raise"
        /\ cpa_last.outcome = "return" =>
               /\ \A a \in RequiredAttributes : patient[a] # Absent
               /\ patient["mesh"] # Absent
               /\ patient["mesh"].dim = 3 => patient["sfun"] # Absent

\* C23 witness: a patient with a 3-dimensional mesh, markers and its fiber
\* field under the name fibers only passed the check: the field is now the
\* attribute fiber, and sfun was made
C23_Witness ==
    /\ cpa_last.outcome = "return"
    /\ patient_in["fiber"] = Absent /\ patient_in["e_f"] = Absent
    /\ patient_in["fiber_angle"] = Absent
    /\ patient_in["sfun"] = Absent /\ patient_in["strain_markers"] = Absent
    /\ patient_in["mesh"] # Absent /\ patient_in["mesh"].dim = 3
    /\ patient["fiber"] = [given |-> "fibers"]
    /\ patient["sfun"] = Made("sfun")
    /\ patient["sheet"] = None

\* the step of the central finite difference
FDStep == Q(1, 10)

\* the coefficient c of exp in a value c*(exp(x) - 1) (diff = 0) or
\* c*exp(x) (diff > 0), x not 0
ExpCoefficient(v, diff) == IF diff = 0 THEN v.c ELSE v.lin

\* value is the derivative at I_1 of W_1(., diff), by the central
\* difference of W_1(., diff) at I_1 +- FDStep.  With
\* up = c*exp(x + d) and dn = c*exp(x - d) (up to a constant), the
\* difference quotient is c*exp(x)*sinh(d)/FDStep, and
\* d <= sinh(d) <= d*(1 + d*d/5) for 0 <= d <= 1: the quotient equals
\* (c*d/FDStep)*exp(x) within the relative tolerance d*d/5 < 1/100.
FiniteDifferenceMatches(m, I_1, diff, value) ==
    LET up == W_1(m, QAdd(I_1, FDStep), diff, 3)
        dn == W_1(m, QSub(I_1, FDStep), diff, 3)
        d == QDiv(QSub(up.x, dn.x), QInt(2))
        mid == QDiv(QAdd(up.x, dn.x), QInt(2))
    IN /\ ExpCoefficient(up, diff) = ExpCoefficient(dn, diff)
       /\ QLess(QInt(0), d) /\ QLess(QMul(d, d), Q(1, 20))
       /\ value.x = mid
       /\ value.lin = QDiv(QMul(ExpCoefficient(up, diff), d), FDStep)

\* C24: for a, b > 0 and I1 in [3, 10], HolzapfelOgden W_1(I1, diff=1) is
\* the derivative with respect to I1 of W_1(I1, diff=0), and
\* W_1(I1, diff=2) that of W_1(I1, diff=1), within the tolerance of a
\* central finite difference.
C24_W1DerivativesConsistent ==
    mat.variant = "HolzapfelOgden" /\ en_last.op = "W_1"
            /\ en_last.args[2] \in {1, 2} =>
        FiniteDifferenceMatches(mat, en_last.args[1], en_last.args[2] - 1,
                                en_last.result)

\* C24 witness: W_1(10, diff=2) of the material a = 2, b = 1 is exp(7)
C24_Witness ==
    /\ mat.variant = "HolzapfelOgden" /\ mat.params.a = 2 /\ mat.params.b = 1
    /\ en_last.op = "W_1" /\ en_last.args = <<QInt(10), 2>>
    /\ en_last.result = Exp(QInt(1), QInt(7))

\* C25 (as claimed): in active_stress mode Wactive(gamma, diff=1), the
\* term CauchyStress uses, is the derivative with respect to I4f of
\* Wactive(gamma, I4f, diff=0) = T_ref*gamma*I4f, for every T_ref and
\* gamma; in the two active strain modes Wactive is 0 for diff 0 and 1.
C25_WactiveDerivativeConsistent ==
    en_last.op = "Wactive" =>
        IF mat.active_model = "active_stress"
        THEN /\ en_last.args[3] = 0 =>
                    en_last.result =
                        Lin(QMul(QMul(QInt(mat.T_ref), en_last.args[1]),
                                 en_last.args[2]))
             /\ en_last.args[3] = 1 =>
                    en_last.result.lin =
                        QSub(Wactive(mat, en_last.args[1], QInt(2), 0).lin,
                             Wactive(mat, en_last.args[1], QInt(1), 0).lin)
        ELSE en_last.result = ZeroVal

\* C26: after any sequence of evaluate, derivative and reset calls
\* func_values_lst and controls_lst have the same length, and so have
\* grad_norm and grad_norm_scaled; evaluate appends exactly one entry to
\* each of the first pair, with and without a crash, and a successful
\* derivative appends exactly one entry to each of the second pair.
C26_HistoryListsPaired ==
    [][/\ Len(func_values_lst') = Len(controls_lst')
       /\ Len(grad_norm') = Len(grad_norm_scaled')
       /\ last'.op = "evaluate" /\ last'.outcome = "return" =>
              /\ AppendedOne(func_values_lst, func_values_lst')
              /\ AppendedOne(controls_lst, controls_lst')
       /\ last'.op = "derivative" /\ last'.outcome = "return" =>
              /\ AppendedOne(grad_norm, grad_norm')
              /\ AppendedOne(grad_norm_scaled, grad_norm_scaled')]_vars

\* C26 witness: a crashed evaluate, a derivative and a reset have been
\* followed by another evaluate; both pairs of lists are of equal length
C26_Witness ==
    /\ EvaluateReturned /\ nr_crashes = 1 /\ iter = 2
    /\ nr_der_calls = 1
    /\ Len(func_values_lst) = 1 /\ Len(controls_lst) = 1
    /\ Len(grad_norm) = 0 /\ Len(grad_norm_scaled) = 0

\* what C27 says of every call, apart from "iter is never decreased": an
\* evaluate call adds exactly one to iter, a reset() after the first
\* completed evaluate leaves the counters, the timing lists and ini_for_res
\* alone, and ini_for_res, once stored, is the bundle of the call that
\* stored it for good
CountersKeptByReset ==
    /\ last'.op = "evaluate" => iter' = iter + 1
    /\ last'.op = "reset" /\ ini_for_res.set =>
           UNCHANGED <<iter, nr_crashes, nr_der_calls, forward_times,
                       backward_times, ini_for_res>>
    /\ ini_for_res.set => ini_for_res' = ini_for_res
    /\ ~ini_for_res.set /\ last'.op = "evaluate" /\ last'.outcome = "return"
           => ini_for_res' = for_res'

\* C27 (as claimed): iter grows by exactly one per evaluate call and is
\* never decreased; a reset() after the first completed evaluate leaves
\* iter, nr_crashes, nr_der_calls, forward_times, backward_times and
\* ini_for_res unchanged, and ini_for_res remains the result bundle of the
\* first evaluate call.
C27_IterNeverDecreased ==
    [][CountersKeptByReset /\ iter' >= iter]_vars

\* C27 (amended): the same, with iter never decreased once an evaluate has
\* completed; a reset() before that, after an evaluate that was left by an
\* exception, sets iter back to 0.
C27_IterNeverDecreasedOnceEvaluated ==
    [][/\ CountersKeptByReset
       /\ ini_for_res.set => iter' >= iter
       /\ ~ini_for_res.set /\ last'.op = "reset" => iter' = 0]_vars

\* C27 witness: after two completed evaluate calls with different results
\* and a reset(), iter is 2 and ini_for_res is not the latest bundle
C27_Witness ==
    /\ last.op = "reset" /\ iter = 2 /\ Len(forward_times) = 2
    /\ ini_for_res.set /\ ini_for_res # for_res

(***************************************************************************)
(* Properties of merge_control                                             *)
(***************************************************************************)
IdsOf(group) == {group[i] : i \in 1..Len(group)}
SmallestOf(ids) == CHOOSE m \in ids : \A other \in ids : m <= other
Merged == mc_last.op = "merge_control"

\* no id is named by two groups of the control string
GroupsDisjoint(groups) ==
    \A g, h \in 1..Len(groups) :
        g # h => IdsOf(groups[g]) \cap IdsOf(groups[h]) = {}

\* the cells of every group carry the group's smallest id, the cells of no
\* group keep their id, and patient.sfun is as it was
MergedAsGrouped ==
    /\ \A g \in 1..Len(mc_last.groups) : \A c \in Cells :
           mc_last.sfun_in[c] \in IdsOf(mc_last.groups[g]) =>
               mc_last.result[c] = SmallestOf(IdsOf(mc_last.groups[g]))
    /\ \A c \in Cells :
           (\A g \in 1..Len(mc_last.groups) :
                mc_last.sfun_in[c] \notin IdsOf(mc_last.groups[g]))
           => mc_last.result[c] = mc_last.sfun_in[c]
    /\ mc_sfun = mc_last.sfun_in
    /\ mc_last.control_str = <<>> => mc_last.result = mc_sfun

\* C28 (as claimed): merge_control returns a region map in which, for
\* every group of the control string, also when two groups share an id, all
\* cells whose original id is in the group carry the smallest id of the
\* group, cells in no group keep their id and patient.sfun is unchanged;
\* for the empty control string the result equals patient.sfun.
C28_GroupsMergedToSmallest == Merged => MergedAsGrouped

\* C28 (amended): the same, for control strings whose groups share no id.
C28_DisjointGroupsMergedToSmallest ==
    Merged /\ GroupsDisjoint(mc_last.groups) => MergedAsGrouped

\* C28 witness: "3,2:1" on a map with all three ids has merged 3 into 2
\* and left 1 alone
C28_Witness ==
    /\ Merged
    /\ mc_last.control_str = <<"3", ",", "2", ":", "1">>
    /\ {mc_sfun[c] : c \in Cells} = {1, 2, 3}
    /\ {mc_last.result[c] : c \in Cells} = {1, 2}

(***************************************************************************)
(* Properties of get_measurements                                          *)
(***************************************************************************)
Measured == gm_last.op = "get_measurements"

\* the lengths of the volume and strain series of the returned dictionary
ReturnedLengths ==
    LET m == gm_last.measurements
    IN  (IF "volume" \in m.keys THEN {Len(m.volume)} ELSE {})
        \cup (IF "regional_strain" \in m.keys
              THEN {Len(m.regional_strain[region]) : region \in StrainRegions}
              ELSE {})

\* C29: in every phase and with both unload settings the pressure, the
\* volume and the strain of every region are cut to the same window after
\* the same one-element prepend under unload, so all returned series have
\* the same length; in the passive phase the window starts at index 0 and
\* the first returned pressure is 0.
C29_SeriesCutAlike ==
    Measured =>
        /\ \A n \in ReturnedLengths :
               n = Len(gm_last.measurements.pressure)
        /\ Len(gm_last.measurements.pressure) =
               slice_bound(gm_last.end,
                           gm_patient.num_points
                           + (IF gm_last.unload THEN 1 ELSE 0))
               - gm_last.start
        /\ gm_last.phase = "passive_inflation" =>
               /\ gm_last.start = 0
               /\ gm_last.measurements.pressure[1] = 0

\* C29 witness: the active phase under unload of a patient with three
\* points and strain has returned pressure, volume and strain of two
\* entries each
C29_Witness ==
    /\ Measured /\ gm_last.phase = "active_contraction" /\ gm_last.unload
    /\ gm_patient.num_points = 3
    /\ {"volume", "regional_strain"} \subseteq gm_last.measurements.keys
    /\ Len(gm_last.measurements.pressure) = 2
    /\ ReturnedLengths = {2}

(***************************************************************************)
(* Properties of the simulation file checks                                *)
(***************************************************************************)
\* C30 (as claimed): contract_point_exists and passive_inflation_exists
\* close the file they opened on every exit, return or raise;
\* contract_point_exists raises IOError exactly when the simulation file
\* or its passive-inflation group is missing, in every phase, and leaves
\* no file open when it raises.
C30_FileClosedOnEveryExit ==
    [][/\ open_handles' = open_handles
       /\ st_last'.exit.opened => st_last'.exit.closed
       /\ st_last'.op = "contract_point_exists" =>
              (st_last'.exit.outcome = "IOError"
               <=> ~(sim_file.exists /\ sim_file.passive_inflation))]_vars

====
